---- MODULE Spec2Model ----
(***************************************************************************)
(* Immich read-only display: the client-side state store (state.js), the  *)
(* gallery's paginated search (Gallery.load / Gallery.loadMore), the      *)
(* filter panel's handlers and the lightbox, as one state machine.        *)
(*                                                                         *)
(* Every action is one turn of the browser's event loop: an event handler *)
(* run up to its first await, or the continuation of an async function    *)
(* after its awaited request has settled.  A handler is written as a      *)
(* chain of transformations of a "world" record w (the store's state, the *)
(* DOM, the requests in flight, ...), in the order of its statements.     *)
(***************************************************************************)
EXTENDS Integers, Sequences, FiniteSets, TLC

VARIABLES
    state,          \* State._state                      (state.js 8-41)
    dom,            \* the DOM properties the code reads or writes
    requests,       \* search requests in flight (API.search not yet settled)
    issued,         \* number of search requests issued so far
    url,            \* the page URL's query parameters (history.replaceState)
    lightbox,       \* Lightbox.currentAsset / Lightbox.currentIndex
    details,        \* Lightbox.open calls awaiting API.getAsset
    opened,         \* number of asset-detail requests issued so far
    changes,        \* number of edits of the filter controls so far
    searchDebounce, \* Filters.searchDebounce: is the 500 ms timer pending
    initPc,         \* App.init: "health" while awaiting checkHealth, then "done"
    server,         \* which optional fields the search service sends
    store,          \* State._subscribers and the objects State.get() handed out
    lastOp          \* history: the operation of the last step and its input

vars == <<state, dom, requests, issued, url, lightbox, details, opened,
          changes, searchDebounce, initPc, server, store, lastOp>>

-----------------------------------------------------------------------------
(* Bounds of the model *)

\* network requests (search and asset-detail) issued in one behaviour
MaxRequests == 3
\* edits of the filter controls (typing, picking, toggling, removing,
\* clearing) in one behaviour
MaxFilterChanges == 1
\* size of the server's largest result set
MaxResults == 3
\* number of items the server puts on one page
PageLen == 2

\* State._state.size
PageSizeParam == 50

-----------------------------------------------------------------------------
(* Values *)

\* JavaScript null for string-valued fields (dateFrom, dateTo, error, payload)
Null == "null"
\* an absent numeric field of a response (total, page)
NoNumber == 0 - 1
\* lightboxAssetId = null
NoId == <<>>
\* Lightbox.currentAsset = null
NoAsset == [id |-> NoId]

Persons == {"p1", "p2"}
QueryValues == {"", "cat"}
DateValues == {"", "2024-01-01"}
MediaTypes == {"ALL", "IMAGE", "VIDEO"}
MakeValues == {"", "Canon"}
ModelValues == {"", "EOS"}
CountryValues == {"", "France"}
CityValues == {"", "Paris"}
ErrorMessages == {"HTTP 500"}

FilterKeys == {"query", "personIds", "dateFrom", "dateTo", "mediaType",
               "cameraMake", "cameraModel", "country", "city"}

Min(a, b) == IF a < b THEN a ELSE b

\* Array.prototype.filter(id => id !== value)
RECURSIVE Without(_, _)
Without(seq, value) ==
    IF seq = <<>> THEN <<>>
    ELSE IF Head(seq) = value THEN Without(Tail(seq), value)
         ELSE <<Head(seq)>> \o Without(Tail(seq), value)

\* Array.prototype.includes
Includes(seq, value) == \E i \in 1..Len(seq) : seq[i] = value

\* Array.prototype.join(',')
RECURSIVE Join(_)
Join(seq) ==
    IF seq = <<>> THEN ""
    ELSE IF Len(seq) = 1 THEN Head(seq)
         ELSE Head(seq) \o "," \o Join(Tail(seq))

\* a record of updates extended by another (updates.page = 1; ...)
With(updates, more) ==
    [k \in DOMAIN updates \cup DOMAIN more |->
        IF k \in DOMAIN more THEN more[k] ELSE updates[k]]

-----------------------------------------------------------------------------
(* The state store: state.js *)

InitialState ==
    [query |-> "", personIds |-> <<>>, dateFrom |-> Null, dateTo |-> Null,
     mediaType |-> "ALL", cameraMake |-> "", cameraModel |-> "",
     country |-> "", city |-> "",
     page |-> 1, size |-> PageSizeParam, hasMore |-> TRUE, total |-> 0,
     assets |-> <<>>,
     isLoading |-> FALSE, isLoadingMore |-> FALSE, error |-> Null,
     lightboxAssetId |-> NoId, lightboxIndex |-> -1]

\* { ...this._state, ...updates }: the mutant spreads the updates first
MergeOldWins(s, updates) ==
    [k \in DOMAIN s \cup DOMAIN updates |->
        IF k \in DOMAIN s THEN s[k] ELSE updates[k]]

\* { ...this._state, ...updates }
Merge(s, updates) ==
    [k \in DOMAIN s \cup DOMAIN updates |->
        IF k \in DOMAIN updates THEN updates[k] ELSE s[k]]

\* the functions passed to State.subscribe: the listeners of Gallery.init and
\* Filters.init, and one of another component
Callbacks == {"Gallery.onStateChange", "Filters.onStateChange", "other"}

\* State._subscribers empty, no object handed out.  `registered` counts the
\* State.subscribe calls and `reg` numbers them; `removed` holds the
\* callbacks whose unregister function was called since they were last
\* subscribed (both are history); `unregisters` holds the callbacks whose
\* unregister function exists; `ops` counts the calls
EmptyStore ==
    [subscribers |-> <<>>, registered |-> 0, unregisters |-> {},
     removed |-> {}, snapshots |-> <<>>, ops |-> 0]

\* this._subscribers.push(callback): the mutant puts it first
PushFirst(subscribers, entry) == <<entry>> \o subscribers

\* this._subscribers.push(callback)
Push(subscribers, entry) == Append(subscribers, entry)

\* State.subscribe
StoreSubscribe(st, callback) ==
    [st EXCEPT !.subscribers =
                   Push(@, [cb |-> callback, reg |-> st.registered + 1]),
               !.registered = @ + 1,
               !.unregisters = @ \cup {callback},
               !.removed = @ \ {callback}]

\* this._subscribers.filter(cb => cb !== callback): the mutant keeps the
\* callback and drops the others
FilterSubscribersOnly(subscribers, callback) ==
    SelectSeq(subscribers, LAMBDA e : e.cb = callback)

\* this._subscribers.filter(cb => cb !== callback)
FilterSubscribers(subscribers, callback) ==
    SelectSeq(subscribers, LAMBDA e : e.cb # callback)

\* the function State.subscribe(callback) returned
StoreUnregister(st, callback) ==
    [st EXCEPT !.subscribers = FilterSubscribers(@, callback),
               !.removed = @ \cup {callback}]

\* does one of the subscribers throw
Throws(subscribers, throwers) ==
    \E i \in 1..Len(subscribers) : subscribers[i].cb \in throwers

\* this._subscribers.forEach: the mutant catches what a callback throws and
\* goes on
NotifiedIsolated(subscribers, throwers) == subscribers

\* this._subscribers.forEach: the subscribers invoked, in order; an exception
\* of a callback ends the loop
Notified(subscribers, throwers) ==
    IF Throws(subscribers, throwers)
    THEN LET first == CHOOSE i \in 1..Len(subscribers) :
                        /\ subscribers[i].cb \in throwers
                        /\ \A j \in 1..(i - 1) :
                              subscribers[j].cb \notin throwers
         IN  SubSeq(subscribers, 1, first)
    ELSE subscribers

\* State.set, the invocations callback(this._state, oldState) it makes
SetCalls(subscribers, throwers, newState, oldState) ==
    LET notified == Notified(subscribers, throwers)
    IN  [i \in 1..Len(notified) |->
            [cb |-> notified[i].cb, reg |-> notified[i].reg,
             new |-> newState, old |-> oldState]]

\* State.get: the mutant returns this._state itself
GetSame(s) == [ref |-> "_state", fields |-> s]

\* State.get: { ...this._state }, a new object with the same fields
Get(s) == [ref |-> "copy", fields |-> s]

\* the fields seen through an object State.get returned
Read(snapshot, s) ==
    IF snapshot.ref = "_state" THEN s ELSE snapshot.fields

\* this._state = { ... } in State.set: _state is a new object, and an object
\* handed out that was the old one keeps the old fields
Detach(snapshots, s) ==
    [i \in 1..Len(snapshots) |->
        IF snapshots[i].ref = "_state" THEN [ref |-> "copy", fields |-> s]
        ELSE snapshots[i]]

\* the nine filter fields of a state
FiltersOf(s) == [k \in FilterKeys |-> s[k]]

\* State.getActiveFilterCount
GetActiveFilterCount(s) ==
      (IF s.query # "" THEN 1 ELSE 0)
    + (IF Len(s.personIds) > 0 THEN 1 ELSE 0)
    + (IF s.dateFrom # Null \/ s.dateTo # Null THEN 1 ELSE 0)
    + (IF s.mediaType # "ALL" THEN 1 ELSE 0)
    + (IF s.cameraMake # "" THEN 1 ELSE 0)
    + (IF s.cameraModel # "" THEN 1 ELSE 0)
    + (IF s.country # "" \/ s.city # "" THEN 1 ELSE 0)

\* x || null for a string x
OrNull(x) == IF x = "" \/ x = Null THEN Null ELSE x

\* State.buildSearchPayload: the mutant requests page + 1 for a first load too
BuildSearchPayloadNextPage(s, loadMore) ==
    [query |-> OrNull(s.query),
     personIds |-> s.personIds,
     takenAfter |-> OrNull(s.dateFrom),
     takenBefore |-> OrNull(s.dateTo),
     type |-> IF s.mediaType # "ALL" THEN s.mediaType ELSE Null,
     make |-> OrNull(s.cameraMake),
     model |-> OrNull(s.cameraModel),
     country |-> OrNull(s.country),
     city |-> OrNull(s.city),
     page |-> s.page + 1,
     size |-> s.size]

\* State.buildSearchPayload(loadMore).  personIds: an empty array is sent as
\* null; the payload keeps <<>> for it, the only array with no element.
BuildSearchPayload(s, loadMore) ==
    [query |-> OrNull(s.query),
     personIds |-> s.personIds,
     takenAfter |-> OrNull(s.dateFrom),
     takenBefore |-> OrNull(s.dateTo),
     type |-> IF s.mediaType # "ALL" THEN s.mediaType ELSE Null,
     make |-> OrNull(s.cameraMake),
     model |-> OrNull(s.cameraModel),
     country |-> OrNull(s.country),
     city |-> OrNull(s.city),
     page |-> IF loadMore THEN s.page + 1 ELSE 1,
     size |-> s.size]

\* State.toURLParams: the mutant also persists the pagination cursor
ToURLParamsWithPage(s) ==
       (IF s.query # "" THEN << <<"q", s.query>> >> ELSE <<>>)
    \o (IF Len(s.personIds) > 0 THEN << <<"people", Join(s.personIds)>> >> ELSE <<>>)
    \o (IF s.dateFrom # Null /\ s.dateFrom # "" THEN << <<"from", s.dateFrom>> >> ELSE <<>>)
    \o (IF s.dateTo # Null /\ s.dateTo # "" THEN << <<"to", s.dateTo>> >> ELSE <<>>)
    \o (IF s.mediaType # "ALL" THEN << <<"type", s.mediaType>> >> ELSE <<>>)
    \o (IF s.cameraMake # "" THEN << <<"make", s.cameraMake>> >> ELSE <<>>)
    \o (IF s.cameraModel # "" THEN << <<"model", s.cameraModel>> >> ELSE <<>>)
    \o (IF s.country # "" THEN << <<"country", s.country>> >> ELSE <<>>)
    \o (IF s.city # "" THEN << <<"city", s.city>> >> ELSE <<>>)
    \o (IF s.page # 1 THEN << <<"page", ToString(s.page)>> >> ELSE <<>>)

\* State.toURLParams: URLSearchParams as a sequence of <<key, value>> pairs
ToURLParams(s) ==
       (IF s.query # "" THEN << <<"q", s.query>> >> ELSE <<>>)
    \o (IF Len(s.personIds) > 0 THEN << <<"people", Join(s.personIds)>> >> ELSE <<>>)
    \o (IF s.dateFrom # Null /\ s.dateFrom # "" THEN << <<"from", s.dateFrom>> >> ELSE <<>>)
    \o (IF s.dateTo # Null /\ s.dateTo # "" THEN << <<"to", s.dateTo>> >> ELSE <<>>)
    \o (IF s.mediaType # "ALL" THEN << <<"type", s.mediaType>> >> ELSE <<>>)
    \o (IF s.cameraMake # "" THEN << <<"make", s.cameraMake>> >> ELSE <<>>)
    \o (IF s.cameraModel # "" THEN << <<"model", s.cameraModel>> >> ELSE <<>>)
    \o (IF s.country # "" THEN << <<"country", s.country>> >> ELSE <<>>)
    \o (IF s.city # "" THEN << <<"city", s.city>> >> ELSE <<>>)

\* URLSearchParams.has / URLSearchParams.get (the first value of the key)
ParamsHas(params, key) == \E i \in 1..Len(params) : params[i][1] = key

ParamsGet(params, key) ==
    params[CHOOSE i \in 1..Len(params) :
              /\ params[i][1] = key
              /\ \A j \in 1..(i - 1) : params[j][1] # key][2]

\* String.prototype.split(','), for lists of at most two of the model's
\* person ids (which hold no comma): the list that join(',') maps to str
SplitComma(str) ==
    CHOOSE seq \in UNION {[1..n -> Persons \cup {""}] : n \in 1..2} :
        Join(seq) = str

\* .filter(Boolean)
FilterBoolean(seq) == Without(seq, "")

\* State.loadFromURL, the updates it collects: the mutant reads the upper
\* bound of the date range from the parameter of the lower bound
LoadFromURLUpdatesOneDate(params) ==
    LET field(param, key, value) ==
            IF ParamsHas(params, param) THEN key :> value ELSE <<>>
    IN  With(With(With(With(With(With(With(With(
        field("q", "query", ParamsGet(params, "q")),
        IF ParamsHas(params, "people")
        THEN [personIds |-> FilterBoolean(SplitComma(ParamsGet(params, "people")))]
        ELSE <<>>),
        field("from", "dateFrom", ParamsGet(params, "from"))),
        field("from", "dateTo", ParamsGet(params, "from"))),
        field("type", "mediaType", ParamsGet(params, "type"))),
        field("make", "cameraMake", ParamsGet(params, "make"))),
        field("model", "cameraModel", ParamsGet(params, "model"))),
        field("country", "country", ParamsGet(params, "country"))),
        field("city", "city", ParamsGet(params, "city")))

\* State.loadFromURL, the updates it collects
LoadFromURLUpdates(params) ==
    LET field(param, key, value) ==
            IF ParamsHas(params, param) THEN key :> value ELSE <<>>
    IN  With(With(With(With(With(With(With(With(
        field("q", "query", ParamsGet(params, "q")),
        IF ParamsHas(params, "people")
        THEN [personIds |-> FilterBoolean(SplitComma(ParamsGet(params, "people")))]
        ELSE <<>>),
        field("from", "dateFrom", ParamsGet(params, "from"))),
        field("to", "dateTo", ParamsGet(params, "to"))),
        field("type", "mediaType", ParamsGet(params, "type"))),
        field("make", "cameraMake", ParamsGet(params, "make"))),
        field("model", "cameraModel", ParamsGet(params, "model"))),
        field("country", "country", ParamsGet(params, "country"))),
        field("city", "city", ParamsGet(params, "city")))

-----------------------------------------------------------------------------
(* The search service behind POST /api/search (external): one fixed, ordered *)
(* result set per filter combination, served in pages of PageLen items.      *)

\* the filter fields of a payload (everything but page and size)
PayloadFilters(payload) ==
    [k \in DOMAIN payload \ {"page", "size"} |-> payload[k]]

\* number of criteria a payload carries
Criteria(payload) ==
      (IF payload.query # Null THEN 1 ELSE 0)
    + Len(payload.personIds)
    + (IF payload.takenAfter # Null THEN 1 ELSE 0)
    + (IF payload.takenBefore # Null THEN 1 ELSE 0)
    + (IF payload.type # Null THEN 1 ELSE 0)
    + (IF payload.make # Null THEN 1 ELSE 0)
    + (IF payload.model # Null THEN 1 ELSE 0)
    + (IF payload.country # Null THEN 1 ELSE 0)
    + (IF payload.city # Null THEN 1 ELSE 0)

\* the size of the result set: MaxResults for no criterion, then 0, 1, ...
ResultLen(payload) == (MaxResults + Criteria(payload)) % (MaxResults + 1)

\* a number for a list of person ids, another for every other list
RECURSIVE PersonsCode(_)
PersonsCode(ids) ==
    IF ids = <<>> THEN 0
    ELSE 3 * PersonsCode(SubSeq(ids, 1, Len(ids) - 1))
         + (IF ids[Len(ids)] = "p1" THEN 1 ELSE 2)

\* a number for the filter combination of a payload, another for every
\* other combination of the values of the model
Fingerprint(payload) ==
    LET bit(x) == IF x # Null THEN 1 ELSE 0
        type == IF payload.type = Null THEN 0
                ELSE IF payload.type = "IMAGE" THEN 1 ELSE 2
    IN  bit(payload.query) + 2 * bit(payload.takenAfter)
        + 4 * bit(payload.takenBefore) + 8 * bit(payload.make)
        + 16 * bit(payload.model) + 32 * bit(payload.country)
        + 64 * bit(payload.city) + 128 * type
        + 384 * PersonsCode(payload.personIds)

\* the server's ordered result sequence for the payload's filters; an asset
\* of a search result is identified by its filter combination and its rank
ServerResults(payload) ==
    [k \in 1..ResultLen(payload) |-> [id |-> <<Fingerprint(payload), k>>]]

\* the items of page payload.page
ServerPage(payload) ==
    LET all == ServerResults(payload)
        lo == (payload.page - 1) * PageLen + 1
        hi == Min(payload.page * PageLen, Len(all))
    IN  IF lo > hi THEN <<>> ELSE SubSeq(all, lo, hi)

\* the service sends its optional pagination fields (total, page) with
\* every response or with none
ServerStyles == {[total |-> b, page |-> b] : b \in BOOLEAN}

\* the responses {items[], total?, page?, hasMore?} a service of the given
\* style may give: an empty items list may be left out, hasMore is whatever
\* the server says, or absent
Responses(style, payload) ==
    { [items |-> ServerPage(payload), hasItems |-> hi,
       total |-> IF style.total THEN ResultLen(payload) ELSE NoNumber,
       page |-> IF style.page THEN payload.page ELSE NoNumber,
       hasMore |-> h] :
        hi \in (IF ServerPage(payload) = <<>> THEN BOOLEAN ELSE {TRUE}),
        h \in {"true", "false", "absent"} }

\* GET /api/assets/{id}: the full asset, with EXIF block and recognised people
AssetPeople(id) ==
    IF id[2] = 1 THEN <<"p1">> ELSE IF id[2] = 2 THEN <<"p2">> ELSE <<>>

FullAsset(id) == [id |-> id, exifInfo |-> TRUE, people |-> AssetPeople(id)]

-----------------------------------------------------------------------------
(* The DOM, and the world a handler transforms *)

\* the page as served: spinner shown, empty/error states and the load-more
\* container hidden, lightbox and its sidebar hidden
InitialDom ==
    [galleryLoadingHidden |-> FALSE, emptyStateHidden |-> TRUE,
     errorStateHidden |-> TRUE, errorMessage |-> "",
     loadMoreContainerHidden |-> TRUE, loadMoreBtnHidden |-> FALSE,
     loadingIndicatorHidden |-> TRUE, resultCount |-> "",
     galleryItems |-> <<>>, searchInputValue |-> "",
     lightboxHidden |-> TRUE, sidebarHidden |-> TRUE, metaPeople |-> <<>>]

World ==
    [state |-> state, dom |-> dom, requests |-> requests, issued |-> issued,
     url |-> url, lightbox |-> lightbox, details |-> details,
     opened |-> opened, changes |-> changes,
     searchDebounce |-> searchDebounce, initPc |-> initPc]

\* Gallery.updateResultCount
UpdateResultCount(s) ==
    LET total == s.total
        showing == Len(s.assets)
    IN  IF showing = 0 THEN "No results"
        ELSE IF total > 0 /\ showing < total
             THEN "Showing " \o ToString(showing) \o " of " \o ToString(total) \o " items"
        ELSE IF s.hasMore THEN "Showing " \o ToString(showing) \o "+ items"
        ELSE ToString(showing) \o " items"

\* Gallery.onStateChange (Filters.onStateChange only rewrites the badge, which
\* is GetActiveFilterCount of the state; Gallery.updateActiveFilters rewrites
\* the filter tags, which are ActiveFilterTags of the state)
OnStateChange(d, newState, oldState) ==
    LET d1 == IF newState.isLoading # oldState.isLoading
              THEN [d EXCEPT !.galleryLoadingHidden =
                        ~newState.isLoading \/ Len(newState.assets) > 0]
              ELSE d
    IN  IF newState.total # oldState.total
           \/ Len(newState.assets) # Len(oldState.assets)
        THEN [d1 EXCEPT !.resultCount = UpdateResultCount(newState)]
        ELSE d1

\* State.set(updates): merge, then notify the subscribers
StateSet(w, updates) ==
    LET newState == Merge(w.state, updates)
    IN  [w EXCEPT !.state = newState,
                  !.dom = OnStateChange(w.dom, newState, w.state)]

\* State.syncToURL
SyncToURL(w) == [w EXCEPT !.url = ToURLParams(w.state)]

\* State.loadFromURL
LoadFromURL(w) ==
    LET updates == LoadFromURLUpdates(w.url)
    IN  IF DOMAIN updates # {} THEN StateSet(w, updates) ELSE w

\* the filter tags Gallery.updateActiveFilters renders: <<key, value>>
ActiveFilterTags(s) ==
       (IF s.query # "" THEN {<<"query", "">>} ELSE {})
  \cup {<<"person", s.personIds[i]>> : i \in 1..Len(s.personIds)}
  \cup (IF s.dateFrom # Null \/ s.dateTo # Null THEN {<<"date", "">>} ELSE {})
  \cup (IF s.mediaType # "ALL" THEN {<<"mediaType", "">>} ELSE {})
  \cup (IF s.cameraMake # "" THEN {<<"cameraMake", "">>} ELSE {})
  \cup (IF s.cameraModel # "" THEN {<<"cameraModel", "">>} ELSE {})
  \cup (IF s.country # "" THEN {<<"country", "">>} ELSE {})
  \cup (IF s.city # "" THEN {<<"city", "">>} ELSE {})

-----------------------------------------------------------------------------
(* Gallery: load, loadMore, render *)

\* Gallery.showLoading
ShowLoading(w) ==
    [w EXCEPT !.dom.galleryLoadingHidden = FALSE,
              !.dom.emptyStateHidden = TRUE,
              !.dom.errorStateHidden = TRUE]

\* Gallery.showError
ShowError(w, message) ==
    [w EXCEPT !.dom.galleryLoadingHidden = TRUE,
              !.dom.emptyStateHidden = TRUE,
              !.dom.errorStateHidden = FALSE,
              !.dom.errorMessage =
                  IF message = "" THEN "Unable to load photos. Please try again."
                  ELSE message,
              !.dom.loadMoreContainerHidden = TRUE]

\* Gallery.showEmpty: the mutant leaves the load-more container as it is
ShowEmptyKeepMore(w) ==
    [w EXCEPT !.dom.galleryLoadingHidden = TRUE,
              !.dom.emptyStateHidden = FALSE,
              !.dom.errorStateHidden = TRUE]

\* Gallery.showEmpty
ShowEmpty(w) ==
    [w EXCEPT !.dom.galleryLoadingHidden = TRUE,
              !.dom.emptyStateHidden = FALSE,
              !.dom.errorStateHidden = TRUE,
              !.dom.loadMoreContainerHidden = TRUE]

\* Gallery.showLoadingMore
ShowLoadingMore(w) ==
    [w EXCEPT !.dom.loadMoreBtnHidden = TRUE,
              !.dom.loadingIndicatorHidden = FALSE]

\* Gallery.hideLoadingMore
HideLoadingMore(w) ==
    [w EXCEPT !.dom.loadMoreBtnHidden = FALSE,
              !.dom.loadingIndicatorHidden = TRUE]

\* the gallery items created for assets, the first with data-index `first`
GalleryItems(assets, first) ==
    [i \in 1..Len(assets) |-> [asset |-> assets[i], index |-> first + i - 1]]

\* Gallery.render
Render(w) ==
    LET assets == w.state.assets
        cleared == [w EXCEPT !.dom.galleryItems = <<>>]
    IN  IF Len(assets) = 0 THEN ShowEmpty(cleared)
        ELSE [cleared EXCEPT
                !.dom.emptyStateHidden = TRUE,
                !.dom.errorStateHidden = TRUE,
                !.dom.galleryItems = GalleryItems(assets, 0),
                !.dom.loadMoreContainerHidden = ~w.state.hasMore]

\* Gallery.appendItems
AppendItems(w, newAssets) ==
    LET currentLength == Len(w.state.assets) - Len(newAssets)
    IN  [w EXCEPT
           !.dom.galleryItems = @ \o GalleryItems(newAssets, currentLength),
           !.dom.loadMoreContainerHidden = ~w.state.hasMore]

\* response.items || []
ItemsOf(response) == IF response.hasItems THEN response.items ELSE <<>>

\* Gallery.load, the update of a successful response: the mutant takes a
\* response without hasMore as the last page
LoadSuccessUpdatesStrict(s, response) ==
    [assets |-> ItemsOf(response),
     total |-> IF response.total # NoNumber THEN response.total
               ELSE IF response.hasItems THEN Len(response.items) ELSE 0,
     page |-> IF response.page = NoNumber \/ response.page = 0 THEN 1
              ELSE response.page,
     hasMore |-> response.hasMore = "true",
     isLoading |-> FALSE]

\* Gallery.load, the update of a successful response (s: the state it is
\* merged into, which the code does not read)
LoadSuccessUpdates(s, response) ==
    [assets |-> ItemsOf(response),
     total |-> IF response.total # NoNumber THEN response.total
               ELSE IF response.hasItems THEN Len(response.items) ELSE 0,
     page |-> IF response.page = NoNumber \/ response.page = 0 THEN 1
              ELSE response.page,
     hasMore |-> response.hasMore # "false",
     isLoading |-> FALSE]

\* Gallery.load, the update of the catch block: the mutant also empties the
\* list
LoadFailureUpdatesClear(message) ==
    [isLoading |-> FALSE, error |-> message, assets |-> <<>>]

\* Gallery.load, the update of the catch block
LoadFailureUpdates(message) ==
    [isLoading |-> FALSE, error |-> message]

\* Gallery.load up to its await: the mutant aborts the load() requests in
\* flight before it issues its own
GalleryLoadAborting(w) ==
    LET w1 == ShowLoading(StateSet(w, [isLoading |-> TRUE, error |-> Null]))
        payload == BuildSearchPayload(w1.state, FALSE)
    IN  [w1 EXCEPT
           !.issued = @ + 1,
           !.requests = {r \in @ : r.kind # "load"}
                        \cup {[id |-> w.issued + 1, kind |-> "load",
                               payload |-> payload]}]

\* Gallery.load up to its await: one search request for page 1
GalleryLoad(w) ==
    LET w1 == ShowLoading(StateSet(w, [isLoading |-> TRUE, error |-> Null]))
        payload == BuildSearchPayload(w1.state, FALSE)
    IN  [w1 EXCEPT
           !.issued = @ + 1,
           !.requests = @ \cup {[id |-> w.issued + 1, kind |-> "load",
                                 payload |-> payload]}]

\* Gallery.load after its await, the request fulfilled
GalleryLoadSuccess(w, r, response) ==
    LET w1 == [w EXCEPT !.requests = @ \ {r}]
        w2 == StateSet(w1, LoadSuccessUpdates(w1.state, response))
    IN  SyncToURL(Render(w2))

\* Gallery.load after its await, the request rejected
GalleryLoadFailure(w, r, message) ==
    LET w1 == [w EXCEPT !.requests = @ \ {r}]
    IN  ShowError(StateSet(w1, LoadFailureUpdates(message)), message)

\* Gallery.loadMore's guard: the mutant forgets the concurrency flag
LoadMoreGuardNoFlag(s) == s.hasMore

\* Gallery.loadMore's guard: the mutant forgets hasMore
LoadMoreGuardNoEnd(s) == ~s.isLoadingMore

\* Gallery.loadMore's guard (it returns at once when this is false)
LoadMoreGuard(s) == ~s.isLoadingMore /\ s.hasMore

\* [...currentAssets, ...newAssets]: the mutant keeps the new page only
MergeAssetsNewOnly(currentAssets, newAssets) == newAssets

\* [...currentAssets, ...newAssets]: the mutant puts the new page first
MergeAssetsNewFirst(currentAssets, newAssets) == newAssets \o currentAssets

\* [...currentAssets, ...newAssets]
MergeAssets(currentAssets, newAssets) == currentAssets \o newAssets

\* Gallery.loadMore, hasMore of a successful response: the mutant trusts the
\* server's flag alone
LoadMoreHasMoreTrusting(response, newAssets) == response.hasMore # "false"

\* Gallery.loadMore, hasMore of a successful response
LoadMoreHasMore(response, newAssets) ==
    response.hasMore # "false" /\ Len(newAssets) > 0

\* Gallery.loadMore, the update of a successful response
LoadMoreSuccessUpdates(s, response) ==
    LET currentAssets == s.assets
        newAssets == ItemsOf(response)
    IN  [assets |-> MergeAssets(currentAssets, newAssets),
         page |-> IF response.page = NoNumber \/ response.page = 0
                  THEN s.page + 1 ELSE response.page,
         hasMore |-> LoadMoreHasMore(response, newAssets),
         isLoadingMore |-> FALSE]

\* Gallery.loadMore, the update of the catch block: the mutant leaves the
\* concurrency flag as it is
LoadMoreFailureUpdatesKeepFlag(s) == [isLoadingMore |-> s.isLoadingMore]

\* Gallery.loadMore, the update of the catch block: the mutant gives up
\* paginating
LoadMoreFailureUpdatesStop(s) == [isLoadingMore |-> FALSE, hasMore |-> FALSE]

\* Gallery.loadMore, the update of the catch block
LoadMoreFailureUpdates(s) == [isLoadingMore |-> FALSE]

\* the pagination fields of a state, and its error
Pagination(s) ==
    [assets |-> s.assets, page |-> s.page, hasMore |-> s.hasMore,
     total |-> s.total, error |-> s.error]

\* Gallery.loadMore up to its await: nothing when the guard fails, else one
\* search request for page state.page + 1.  The request record also keeps
\* atCall, the pagination fields at the call (history, the code has no such
\* copy: it reads the list again after the await), and awaitedBy, the async
\* function that awaits this loadMore() call, if any.
GalleryLoadMore(w) ==
    IF ~LoadMoreGuard(w.state) THEN w
    ELSE LET w1 == ShowLoadingMore(StateSet(w, [isLoadingMore |-> TRUE]))
             payload == BuildSearchPayload(w1.state, TRUE)
         IN  [w1 EXCEPT
                !.issued = @ + 1,
                !.requests = @ \cup {[id |-> w.issued + 1, kind |-> "loadMore",
                                      payload |-> payload,
                                      atCall |-> Pagination(w.state),
                                      awaitedBy |-> "none"]}]

\* Gallery.loadMore after its await, the request fulfilled
GalleryLoadMoreSuccess(w, r, response) ==
    LET w1 == [w EXCEPT !.requests = @ \ {r}]
        w2 == StateSet(w1, LoadMoreSuccessUpdates(w1.state, response))
    IN  HideLoadingMore(AppendItems(w2, ItemsOf(response)))

\* Gallery.loadMore after its await, the request rejected
GalleryLoadMoreFailure(w, r) ==
    LET w1 == [w EXCEPT !.requests = @ \ {r}]
    IN  HideLoadingMore(StateSet(w1, LoadMoreFailureUpdates(w1.state)))

\* Gallery.removeFilter, the fields reset for a key: the mutant resets only
\* the lower bound of a date range
RemoveFilterFieldsHalfDate(s, key, value) ==
    CASE key = "query" -> [query |-> ""]
      [] key = "person" -> [personIds |-> Without(s.personIds, value)]
      [] key = "date" -> [dateFrom |-> Null]
      [] key = "mediaType" -> [mediaType |-> "ALL"]
      [] key = "cameraMake" -> [cameraMake |-> ""]
      [] key = "cameraModel" -> [cameraModel |-> ""]
      [] key = "country" -> [country |-> ""]
      [] key = "city" -> [city |-> ""]

\* Gallery.removeFilter, the fields reset for a key (the switch)
RemoveFilterFields(s, key, value) ==
    CASE key = "query" -> [query |-> ""]
      [] key = "person" -> [personIds |-> Without(s.personIds, value)]
      [] key = "date" -> [dateFrom |-> Null, dateTo |-> Null]
      [] key = "mediaType" -> [mediaType |-> "ALL"]
      [] key = "cameraMake" -> [cameraMake |-> ""]
      [] key = "cameraModel" -> [cameraModel |-> ""]
      [] key = "country" -> [country |-> ""]
      [] key = "city" -> [city |-> ""]

\* one more edit of a filter control
Changing(w) == [w EXCEPT !.changes = @ + 1]

\* Gallery.removeFilter: the mutant calls load() before State.set(updates)
GalleryRemoveFilterLoadFirst(w, key, value) ==
    LET updates == With(RemoveFilterFields(w.state, key, value),
                        [page |-> 1, assets |-> <<>>, hasMore |-> TRUE])
        w1 == IF key = "query" THEN [w EXCEPT !.dom.searchInputValue = ""]
              ELSE w
    IN  StateSet(GalleryLoad(Changing(w1)), updates)

\* Gallery.removeFilter
GalleryRemoveFilter(w, key, value) ==
    LET updates == With(RemoveFilterFields(w.state, key, value),
                        [page |-> 1, assets |-> <<>>, hasMore |-> TRUE])
        w1 == IF key = "query" THEN [w EXCEPT !.dom.searchInputValue = ""]
              ELSE w
    IN  GalleryLoad(StateSet(Changing(w1), updates))

-----------------------------------------------------------------------------
(* Filters: the handlers of the filter panel *)

\* the update of the three search-box handlers (input timer, Enter, button)
QueryUpdates(value) ==
    [query |-> value, page |-> 1, assets |-> <<>>, hasMore |-> TRUE]

\* the update of a change handler of one control: the mutant keeps the list
FieldUpdatesKeepList(key, value) == With([page |-> 1], key :> value)

\* the update of a change handler of one control (date, media type, camera,
\* location) and of the person handlers
FieldUpdates(key, value) ==
    With([page |-> 1, assets |-> <<>>], key :> value)

\* clearTimeout(this.searchDebounce): the mutant leaves the timer pending
ClearTimeoutNoOp(pending) == pending

\* clearTimeout(this.searchDebounce): no timer is pending afterwards
ClearTimeout(pending) == FALSE

\* the search-box handlers: State.set(...); Gallery.load().  The value is
\* read from the input element when the handler runs (e.target.value in the
\* timer callback too).
FiltersSearch(w) ==
    GalleryLoad(StateSet(w, QueryUpdates(w.dom.searchInputValue)))

\* a change handler: State.set(...); Gallery.load()
FiltersChange(w, key, value) ==
    GalleryLoad(StateSet(Changing(w), FieldUpdates(key, value)))

\* Filters.togglePerson
FiltersTogglePerson(w, personId) ==
    LET currentIds == w.state.personIds
        newIds == IF Includes(currentIds, personId)
                  THEN Without(currentIds, personId)
                  ELSE currentIds \o <<personId>>
    IN  GalleryLoad(StateSet(Changing(w), FieldUpdates("personIds", newIds)))

\* Filters.apply
FiltersApply(w) ==
    GalleryLoad(StateSet(w, [page |-> 1, assets |-> <<>>, hasMore |-> TRUE]))

\* State.clearFilters
ClearFilters(w) ==
    SyncToURL(StateSet(w,
        [query |-> "", personIds |-> <<>>, dateFrom |-> Null, dateTo |-> Null,
         mediaType |-> "ALL", cameraMake |-> "", cameraModel |-> "",
         country |-> "", city |-> "",
         page |-> 1, assets |-> <<>>, hasMore |-> TRUE]))

\* Filters.clearAll
FiltersClearAll(w) ==
    GalleryLoad(ClearFilters(Changing([w EXCEPT !.dom.searchInputValue = ""])))

-----------------------------------------------------------------------------
(* Lightbox *)

\* Lightbox.open up to its await.  The items of a search result carry no
\* exifInfo, so the full asset is fetched.
LightboxOpen(w, asset, index) ==
    LET w1 == StateSet([w EXCEPT !.lightbox = [currentAsset |-> asset,
                                               currentIndex |-> index]],
                       [lightboxAssetId |-> asset.id, lightboxIndex |-> index])
    IN  [w1 EXCEPT !.dom.lightboxHidden = FALSE,
                   !.opened = @ + 1,
                   !.details = @ \cup {[id |-> w.opened + 1, asset |-> asset]}]

\* Lightbox.updateMetadata: the people chips of the sidebar
UpdateMetadata(w, asset) ==
    [w EXCEPT !.dom.metaPeople =
        IF "people" \in DOMAIN asset THEN asset.people ELSE <<>>]

\* Lightbox.open after its await: displayMedia(this.currentAsset) reads
\* asset.type, which throws when close() has set currentAsset to null; the
\* statements after it are then not run
LightboxOpenSettled(w, d, ok) ==
    LET w1 == [w EXCEPT !.details = @ \ {d}]
        w2 == IF ok THEN [w1 EXCEPT !.lightbox.currentAsset = FullAsset(d.asset.id)]
              ELSE w1
    IN  IF w2.lightbox.currentAsset = NoAsset THEN w2
        ELSE UpdateMetadata(w2, w2.lightbox.currentAsset)

\* Lightbox.close
LightboxClose(w) ==
    StateSet([w EXCEPT !.dom.lightboxHidden = TRUE,
                       !.lightbox = [currentAsset |-> NoAsset,
                                     currentIndex |-> -1]],
             [lightboxAssetId |-> NoId, lightboxIndex |-> -1])

\* Lightbox.previous: the mutant wraps around to the last asset at index 0
LightboxPreviousWrap(w) ==
    LET i == w.lightbox.currentIndex
        assets == w.state.assets
    IN  IF i <= 0
        THEN IF Len(assets) > 0
             THEN LightboxOpen(w, assets[Len(assets)], Len(assets) - 1)
             ELSE w
        ELSE IF i - 1 < Len(assets) THEN LightboxOpen(w, assets[i], i - 1)
        ELSE w

\* Lightbox.previous
LightboxPrevious(w) ==
    LET i == w.lightbox.currentIndex
        assets == w.state.assets
    IN  IF i <= 0 THEN w
        ELSE IF i - 1 < Len(assets) THEN LightboxOpen(w, assets[i], i - 1)
        ELSE w

\* `await Gallery.loadMore()` in Lightbox.next: the request the call has
\* issued, if it has issued one, is awaited by next (whose continuation is
\* `return`)
AwaitLoadMore(w, before) ==
    [w EXCEPT !.requests =
        {IF r.id > before.issued THEN [r EXCEPT !.awaitedBy = "Lightbox.next"]
         ELSE r : r \in w.requests}]

\* Lightbox.next
LightboxNext(w) ==
    LET i == w.lightbox.currentIndex
        assets == w.state.assets
    IN  IF i >= Len(assets) - 1
        THEN IF w.state.hasMore THEN AwaitLoadMore(GalleryLoadMore(w), w)
             ELSE w
        ELSE IF i + 1 >= 0 THEN LightboxOpen(w, assets[i + 2], i + 1)
        ELSE w

\* Lightbox.toggleSidebar
LightboxToggleSidebar(w) == [w EXCEPT !.dom.sidebarHidden = ~@]

\* the keys of the keydown events
Keys == {"Escape", "ArrowLeft", "ArrowRight", "i", "Enter"}

\* Lightbox.handleKeyboard: the mutant does not test whether the lightbox
\* is hidden
HandleKeyboardAlways(w, key) ==
    CASE key = "Escape" -> LightboxClose(w)
      [] key = "ArrowLeft" -> LightboxPrevious(w)
      [] key = "ArrowRight" -> LightboxNext(w)
      [] key = "i" -> LightboxToggleSidebar(w)
      [] OTHER -> w

\* Lightbox.handleKeyboard
HandleKeyboard(w, key) ==
    IF w.dom.lightboxHidden THEN w
    ELSE CASE key = "Escape" -> LightboxClose(w)
           [] key = "ArrowLeft" -> LightboxPrevious(w)
           [] key = "ArrowRight" -> LightboxNext(w)
           [] key = "i" -> LightboxToggleSidebar(w)
           [] OTHER -> w

\* the click handler of a person chip in the lightbox sidebar
LightboxPersonChip(w, personId) ==
    LET w1 == LightboxClose(w)
        currentPersonIds == w1.state.personIds
    IN  IF Includes(currentPersonIds, personId) THEN w1
        ELSE GalleryLoad(StateSet(Changing(w1),
                FieldUpdates("personIds", currentPersonIds \o <<personId>>)))

-----------------------------------------------------------------------------
(* The state machine *)

\* the URLs the page is opened with: no parameter, or every filter set
InitURLs ==
    { <<>>,
      << <<"q", "cat">>, <<"people", "p1,p2">>, <<"from", "2024-01-01">>,
         <<"to", "2024-01-01">>, <<"type", "IMAGE">>, <<"make", "Canon">>,
         <<"model", "EOS">>, <<"country", "France">>, <<"city", "Paris">> >> }

\* the world before App.init, the page opened with the given URL
Fresh(params) ==
    [state |-> InitialState, dom |-> InitialDom, requests |-> {},
     issued |-> 0, url |-> params,
     lightbox |-> [currentAsset |-> NoAsset, currentIndex |-> -1],
     details |-> {}, opened |-> 0, changes |-> 0,
     searchDebounce |-> FALSE, initPc |-> "health"]

\* the store once Gallery.init and Filters.init have subscribed (App.init)
AppStore ==
    StoreSubscribe(StoreSubscribe(EmptyStore, "Gallery.onStateChange"),
                   "Filters.onStateChange")

\* App.init has run up to `await this.checkHealth()`: the components are
\* initialised (Filters.initFromState has copied the default state to the
\* controls), then State.loadFromURL has run; no search request is issued yet
Init ==
    /\ \E params \in InitURLs :
         /\ state = LoadFromURL(Fresh(params)).state
         /\ dom = LoadFromURL(Fresh(params)).dom
         /\ url = params
    /\ requests = {}
    /\ issued = 0
    /\ lightbox = [currentAsset |-> NoAsset, currentIndex |-> -1]
    /\ details = {}
    /\ opened = 0
    /\ changes = 0
    /\ searchDebounce = FALSE
    /\ initPc = "health"
    /\ server \in ServerStyles
    /\ store = AppStore
    /\ lastOp = [op |-> "Init"]

\* the step that turns the world into w, within the bounds of the model
Commit(world, op) ==
  \E w \in {world} :
    /\ w.issued + w.opened <= MaxRequests
    /\ w.changes <= MaxFilterChanges
    /\ state' = w.state
    /\ dom' = w.dom
    /\ requests' = w.requests
    /\ issued' = w.issued
    /\ url' = w.url
    /\ lightbox' = w.lightbox
    /\ details' = w.details
    /\ opened' = w.opened
    /\ changes' = w.changes
    /\ searchDebounce' = w.searchDebounce
    /\ initPc' = w.initPc
    /\ server' = server
    /\ store' = store
    /\ lastOp' = op

\* App.init after `await this.checkHealth()`: the mutant lets a failed
\* health check end init
AppInitContinueHealthy(w, ok) ==
    IF ok THEN GalleryLoad([w EXCEPT !.initPc = "done"])
    ELSE [w EXCEPT !.initPc = "done"]

\* App.init after `await this.checkHealth()`, which catches the failure of
\* API.getHealth (ok: the request was fulfilled): Gallery.load()
AppInitContinue(w, ok) == GalleryLoad([w EXCEPT !.initPc = "done"])

\* API.getHealth of App.checkHealth settles
HealthSettled(ok) ==
    /\ initPc = "health"
    /\ Commit(AppInitContinue(World, ok), [op |-> "HealthSettled", ok |-> ok])

\* input event of the search box: the text changes, the timer is restarted
\* (clearTimeout, then setTimeout)
SearchInput(value) ==
    /\ value # dom.searchInputValue
    /\ Commit(Changing([World EXCEPT !.dom.searchInputValue = value,
                                     !.searchDebounce = TRUE]),
              [op |-> "SearchInput"])

\* the debounce timer fires: it is pending no more, its callback runs
DebounceFire ==
    /\ searchDebounce
    /\ Commit(FiltersSearch([World EXCEPT !.searchDebounce = FALSE]),
              [op |-> "DebounceFire"])

\* Enter in the search box: clearTimeout, then the search
SearchEnter ==
    Commit(FiltersSearch([World EXCEPT !.searchDebounce = ClearTimeout(@)]),
           [op |-> "SearchEnter"])

\* click on the search button: clearTimeout, then the search
SearchClick ==
    Commit(FiltersSearch([World EXCEPT !.searchDebounce = ClearTimeout(@)]),
           [op |-> "SearchClick"])

DateFromChange(value) ==
    Commit(FiltersChange(World, "dateFrom", OrNull(value)),
           [op |-> "DateFromChange"])

DateToChange(value) ==
    Commit(FiltersChange(World, "dateTo", OrNull(value)),
           [op |-> "DateToChange"])

MediaTypeChange(value) ==
    /\ value # state.mediaType
    /\ Commit(FiltersChange(World, "mediaType", value),
              [op |-> "MediaTypeChange"])

CameraMakeChange(value) ==
    /\ value # state.cameraMake
    /\ Commit(FiltersChange(World, "cameraMake", value),
              [op |-> "CameraMakeChange"])

CameraModelChange(value) ==
    /\ value # state.cameraModel
    /\ Commit(FiltersChange(World, "cameraModel", value),
              [op |-> "CameraModelChange"])

CountryChange(value) ==
    /\ value # state.country
    /\ Commit(FiltersChange(World, "country", value),
              [op |-> "CountryChange"])

CityChange(value) ==
    /\ value # state.city
    /\ Commit(FiltersChange(World, "city", value), [op |-> "CityChange"])

TogglePerson(personId) ==
    Commit(FiltersTogglePerson(World, personId), [op |-> "TogglePerson"])

Apply == Commit(FiltersApply(World), [op |-> "Apply"])

ClearAll == Commit(FiltersClearAll(World), [op |-> "ClearAll"])

\* click on the remove button of a filter tag
RemoveFilter(key, value) ==
    /\ <<key, value>> \in ActiveFilterTags(state)
    /\ Commit(GalleryRemoveFilter(World, key, value),
              [op |-> "RemoveFilter", key |-> key, value |-> value])

\* click on the retry button of the error view: Gallery.reload()
Retry ==
    /\ ~dom.errorStateHidden
    /\ Commit(GalleryLoad(World), [op |-> "Retry"])

\* click on the load-more button, its container shown.  The button's own
\* hidden attribute (set while a page is loading) is no guard: the listener
\* runs for element.click() too, and a display rule of a style sheet
\* overrides the attribute.
LoadMoreClick ==
    /\ ~dom.loadMoreContainerHidden
    /\ Commit(GalleryLoadMore(World),
              [op |-> "LoadMoreClick", loading |-> state.isLoadingMore])

\* the intersection observer's callback, the container scrolled into view
InfiniteScroll ==
    /\ ~dom.loadMoreContainerHidden
    /\ ~state.isLoadingMore /\ state.hasMore
    /\ Commit(GalleryLoadMore(World),
              [op |-> "InfiniteScroll", loading |-> state.isLoadingMore])

\* the search request of a load() is fulfilled
LoadSuccess ==
    \E r \in requests : \E response \in Responses(server, r.payload) :
        /\ r.kind = "load"
        /\ Commit(GalleryLoadSuccess(World, r, response),
                  [op |-> "LoadSuccess", request |-> r, response |-> response])

\* the search request of a load() is rejected
LoadFailure ==
    \E r \in requests : \E message \in ErrorMessages :
        /\ r.kind = "load"
        /\ Commit(GalleryLoadFailure(World, r, message),
                  [op |-> "LoadFailure", request |-> r, message |-> message])

\* the search request of a loadMore() is fulfilled
LoadMoreSuccess ==
    \E r \in requests : \E response \in Responses(server, r.payload) :
        /\ r.kind = "loadMore"
        /\ Commit(GalleryLoadMoreSuccess(World, r, response),
                  [op |-> "LoadMoreSuccess", request |-> r,
                   response |-> response])

\* the search request of a loadMore() is rejected
LoadMoreFailure ==
    \E r \in requests :
        /\ r.kind = "loadMore"
        /\ Commit(GalleryLoadMoreFailure(World, r),
                  [op |-> "LoadMoreFailure", request |-> r])

\* click (or Enter) on a gallery item
ItemClick ==
    \E i \in 1..Len(dom.galleryItems) :
        Commit(LightboxOpen(World, dom.galleryItems[i].asset,
                            dom.galleryItems[i].index),
               [op |-> "ItemClick"])

\* API.getAsset of a Lightbox.open settles
OpenSettled ==
    \E d \in details : \E ok \in BOOLEAN :
        Commit(LightboxOpenSettled(World, d, ok),
               [op |-> "OpenSettled", ok |-> ok,
                threw |-> (~ok /\ lightbox.currentAsset = NoAsset)])

\* close button, overlay click or Escape
Close ==
    /\ ~dom.lightboxHidden
    /\ Commit(LightboxClose(World), [op |-> "Close"])

\* previous button or ArrowLeft
Previous ==
    /\ ~dom.lightboxHidden
    /\ Commit(LightboxPrevious(World), [op |-> "Previous"])

\* next button or ArrowRight
NextAsset ==
    /\ ~dom.lightboxHidden
    /\ Commit(LightboxNext(World),
              [op |-> "LightboxNext", loading |-> state.isLoadingMore])

\* click on a person chip of the sidebar
PersonChipClick ==
    \E i \in 1..Len(dom.metaPeople) :
        /\ ~dom.lightboxHidden
        /\ Commit(LightboxPersonChip(World, dom.metaPeople[i]),
                  [op |-> "PersonChipClick"])

Next ==
    \/ \E ok \in BOOLEAN : HealthSettled(ok)
    \/ \E value \in QueryValues : SearchInput(value)
    \/ DebounceFire
    \/ SearchEnter
    \/ SearchClick
    \/ \E value \in DateValues : DateFromChange(value)
    \/ \E value \in DateValues : DateToChange(value)
    \/ \E value \in MediaTypes : MediaTypeChange(value)
    \/ \E value \in MakeValues : CameraMakeChange(value)
    \/ \E value \in ModelValues : CameraModelChange(value)
    \/ \E value \in CountryValues : CountryChange(value)
    \/ \E value \in CityValues : CityChange(value)
    \/ \E personId \in Persons : TogglePerson(personId)
    \/ Apply
    \/ ClearAll
    \/ \E key \in {"query", "person", "date", "mediaType", "cameraMake",
                   "cameraModel", "country", "city"} :
          \E value \in Persons \cup {""} : RemoveFilter(key, value)
    \/ Retry
    \/ LoadMoreClick
    \/ InfiniteScroll
    \/ LoadSuccess
    \/ LoadFailure
    \/ LoadMoreSuccess
    \/ LoadMoreFailure
    \/ ItemClick
    \/ OpenSettled
    \/ Close
    \/ Previous
    \/ NextAsset
    \/ PersonChipClick

Spec == Init /\ [][Next]_vars

-----------------------------------------------------------------------------
(* Browsing with the keyboard: the page loads, the user opens items and     *)
(* presses keys, with the lightbox open or closed; Gallery.loadMore() is     *)
(* also called directly.  (In Spec the keys are part of Close, Previous and  *)
(* NextAsset, which stand for the buttons and for the keys pressed while     *)
(* the lightbox is open.)                                                    *)

\* the keydown listener of the document
KeyDown(key) ==
    Commit(HandleKeyboard(World, key),
           [op |-> "KeyDown", key |-> key, loading |-> state.isLoadingMore])

\* Gallery.loadMore() called whatever the page shows: the click listener of
\* the load-more button run by element.click(), or another caller of the
\* method
LoadMoreCall ==
    Commit(GalleryLoadMore(World),
           [op |-> "LoadMoreCall", loading |-> state.isLoadingMore])

NextBrowse ==
    \/ \E ok \in BOOLEAN : HealthSettled(ok)
    \/ LoadSuccess
    \/ LoadMoreSuccess
    \/ InfiniteScroll
    \/ LoadMoreCall
    \/ ItemClick
    \/ OpenSettled
    \/ \E key \in Keys : KeyDown(key)

SpecBrowse == Init /\ [][NextBrowse]_vars

-----------------------------------------------------------------------------
(* URL persistence on its own: State.syncToURL on a store holding any       *)
(* combination of filter values, then the page opened with that URL.        *)
(* The query string is kept as the list of pairs URLSearchParams holds; its *)
(* serialisation and parsing are the browser's.                             *)

\* the values a date bound can hold: null, a date, or the empty string that
\* State.loadFromURL stores for a URL with an empty `from=` or `to=`
StoredDateValues == {Null, "", "2024-01-01"}

\* lists of selected person ids
PersonLists == {<<>>, <<"p1">>, <<"p2", "p1">>}

\* the combinations of filter values
FilterCombos ==
    [query : QueryValues, personIds : PersonLists,
     dateFrom : StoredDateValues, dateTo : StoredDateValues,
     mediaType : MediaTypes, cameraMake : MakeValues,
     cameraModel : ModelValues, country : CountryValues, city : CityValues]

\* values of the fields that are no filters: the defaults, and a store in
\* the middle of browsing
OtherFields ==
    { [page |-> 1, hasMore |-> TRUE, total |-> 0, assets |-> <<>>,
       isLoading |-> FALSE, isLoadingMore |-> FALSE, error |-> Null,
       lightboxAssetId |-> NoId, lightboxIndex |-> -1],
      [page |-> 2, hasMore |-> FALSE, total |-> MaxResults,
       assets |-> <<[id |-> <<0, 1>>]>>,
       isLoading |-> TRUE, isLoadingMore |-> TRUE, error |-> "HTTP 500",
       lightboxAssetId |-> <<0, 1>>, lightboxIndex |-> 0] }

InitURL ==
    /\ \E f \in FilterCombos : \E o \in OtherFields :
          state = Merge(Merge(InitialState, f), o)
    /\ dom = InitialDom
    /\ url = <<>>
    /\ requests = {}
    /\ issued = 0
    /\ lightbox = [currentAsset |-> NoAsset, currentIndex |-> -1]
    /\ details = {}
    /\ opened = 0
    /\ changes = 0
    /\ searchDebounce = FALSE
    /\ initPc = "done"
    /\ server = [total |-> TRUE, page |-> TRUE]
    /\ store = AppStore
    /\ lastOp = [op |-> "Init"]

\* State.syncToURL() on the store
URLSync ==
    /\ lastOp.op # "SyncToURL"
    /\ Commit(SyncToURL(World),
              [op |-> "SyncToURL", filters |-> FiltersOf(state)])

\* the page is opened with the URL just written: State.loadFromURL() on a
\* store holding the defaults (App.init up to checkHealth)
URLReload ==
    /\ lastOp.op = "SyncToURL"
    /\ Commit(LoadFromURL(Fresh(url)),
              [op |-> "Reload", filters |-> lastOp.filters])

NextURL == URLSync \/ URLReload

SpecURL == InitURL /\ [][NextURL]_vars

-----------------------------------------------------------------------------
(* The store on its own: State.set, State.subscribe, the functions it       *)
(* returns and State.get, called in any order by any component.             *)

\* length of State._subscribers
MaxSubscribers == 3
\* objects State.get() handed out that are still held
MaxSnapshots == 2
\* calls of the store's methods in one behaviour
MaxStoreOps == 5

\* the arguments of State.set: fields of the state, and a field the initial
\* state does not have
SetUpdates ==
    { [page |-> 2], [query |-> "cat", page |-> 1],
      [isLoading |-> TRUE, error |-> Null], [theme |-> "dark"] }

\* assignments to a field of an object State.get() returned
Assignments == { <<"page", 7>>, <<"query", "dog">> }

\* what the store's actions leave alone
RestUnchanged ==
    UNCHANGED <<dom, requests, issued, url, lightbox, details, opened,
                changes, searchDebounce, initPc, server>>

InitStore ==
    /\ state = InitialState
    /\ store = EmptyStore
    /\ dom = InitialDom
    /\ url = <<>>
    /\ requests = {}
    /\ issued = 0
    /\ lightbox = [currentAsset |-> NoAsset, currentIndex |-> -1]
    /\ details = {}
    /\ opened = 0
    /\ changes = 0
    /\ searchDebounce = FALSE
    /\ initPc = "health"
    /\ server = [total |-> TRUE, page |-> TRUE]
    /\ lastOp = [op |-> "Init"]

\* State.subscribe(callback)
Subscribe(callback) ==
    /\ store.ops < MaxStoreOps
    /\ Len(store.subscribers) < MaxSubscribers
    /\ store' = [StoreSubscribe(store, callback) EXCEPT !.ops = @ + 1]
    /\ lastOp' = [op |-> "Subscribe", callback |-> callback]
    /\ state' = state
    /\ RestUnchanged

\* a function State.subscribe(callback) returned is called
Unregister(callback) ==
    /\ store.ops < MaxStoreOps
    /\ callback \in store.unregisters
    /\ store' = [StoreUnregister(store, callback) EXCEPT !.ops = @ + 1]
    /\ lastOp' = [op |-> "Unregister", callback |-> callback]
    /\ state' = state
    /\ RestUnchanged

\* State.set(updates), with the callbacks in `throwers` throwing when invoked
Set(updates, throwers) ==
    /\ store.ops < MaxStoreOps
    /\ LET oldState == state
           newState == Merge(state, updates)
       IN  /\ state' = newState
           /\ store' = [store EXCEPT !.snapshots = Detach(@, oldState),
                                     !.ops = @ + 1]
           /\ lastOp' = [op |-> "Set", updates |-> updates,
                         calls |-> SetCalls(store.subscribers, throwers,
                                            newState, oldState),
                         throwers |-> throwers,
                         threw |-> Throws(store.subscribers, throwers)]
    /\ RestUnchanged

\* what a subscriber may do when it is invoked: call State.subscribe, or the
\* unregister function State.subscribe returned for a callback
Effects ==
    [by : Callbacks, do : {"subscribe", "unregister"}, target : Callbacks]

\* callback(this._state, oldState) for one element of the array: the store
\* after it, the callback effect.by doing what the effect says
RunCallback(st, entry, effect) ==
    IF entry.cb # effect.by THEN st
    ELSE IF effect.do = "subscribe" THEN StoreSubscribe(st, effect.target)
    ELSE StoreUnregister(st, effect.target)

\* a loop that reads this._subscribers and its length again at every
\* iteration (what Array.prototype.forEach does not do)
RECURSIVE ForEachLiveFrom(_, _, _, _)
ForEachLiveFrom(k, st, effect, calls) ==
    IF k > Len(st.subscribers) \/ k > MaxSubscribers
    THEN [st |-> st, calls |-> calls]
    ELSE LET entry == st.subscribers[k]
         IN  ForEachLiveFrom(k + 1, RunCallback(st, entry, effect), effect,
                             Append(calls, entry))

\* this._subscribers.forEach: the mutant iterates over the current value
\* of this._subscribers
ForEachLive(st, effect) == ForEachLiveFrom(1, st, effect, <<>>)

\* Array.prototype.forEach from index k: `array` is the array object the
\* loop was started on and len its length then (elements appended later are
\* not visited); `same` tells whether this._subscribers is still that
\* object: push() in subscribe mutates it, the unregister function assigns
\* a new array made by filter() and leaves it alone
RECURSIVE ForEachFrom(_, _, _, _, _)
ForEachFrom(k, len, loop, effect, calls) ==
    IF k > len \/ k > Len(loop.array)
    THEN [st |-> loop.st, calls |-> calls]
    ELSE LET entry == loop.array[k]
             st1 == RunCallback(loop.st, entry, effect)
             replaced == entry.cb = effect.by /\ effect.do = "unregister"
             same == loop.same /\ ~replaced
             after == [array |-> IF same THEN st1.subscribers
                                 ELSE loop.array,
                       same |-> same, st |-> st1]
         IN  ForEachFrom(k + 1, len, after, effect, Append(calls, entry))

\* this._subscribers.forEach of State.set with a subscriber that changes
\* the subscriptions: the store afterwards and the elements invoked
ForEach(st, effect) ==
    ForEachFrom(1, Len(st.subscribers),
                [array |-> st.subscribers, same |-> TRUE, st |-> st],
                effect, <<>>)

\* State.set(updates) with a subscriber that subscribes or unregisters a
\* callback when it is invoked (no callback throws)
SetReentrant(updates, effect) ==
    /\ store.ops < MaxStoreOps
    /\ \E i \in 1..Len(store.subscribers) : store.subscribers[i].cb = effect.by
    /\ effect.do = "unregister" => effect.target \in store.unregisters
    /\ LET oldState == state
           newState == Merge(state, updates)
           done == ForEach([store EXCEPT !.snapshots = Detach(@, oldState)],
                           effect)
       IN  /\ Len(done.st.subscribers) <= MaxSubscribers
           /\ state' = newState
           /\ store' = [done.st EXCEPT !.ops = @ + 1]
           /\ lastOp' = [op |-> "SetReentrant", updates |-> updates,
                         effect |-> effect,
                         calls |-> [i \in 1..Len(done.calls) |->
                                      [cb |-> done.calls[i].cb,
                                       reg |-> done.calls[i].reg,
                                       new |-> newState, old |-> oldState]]]
    /\ RestUnchanged

\* State.get(), the caller keeps the object
GetSnapshot ==
    /\ store.ops < MaxStoreOps
    /\ Len(store.snapshots) < MaxSnapshots
    /\ store' = [store EXCEPT !.snapshots = Append(@, Get(state)),
                              !.ops = @ + 1]
    /\ lastOp' = [op |-> "Get"]
    /\ state' = state
    /\ RestUnchanged

\* the holder of an object State.get() returned assigns to one of its fields
SnapshotAssign(i, key, value) ==
    /\ store.ops < MaxStoreOps
    /\ i \in 1..Len(store.snapshots)
    /\ Read(store.snapshots[i], state)[key] # value
    /\ IF store.snapshots[i].ref = "_state"
       THEN /\ state' = [state EXCEPT ![key] = value]
            /\ store' = [store EXCEPT !.ops = @ + 1]
       ELSE /\ state' = state
            /\ store' = [store EXCEPT !.snapshots[i].fields[key] = value,
                                      !.ops = @ + 1]
    /\ lastOp' = [op |-> "SnapshotAssign", snapshot |-> i, key |-> key]
    /\ RestUnchanged

NextStore ==
    \/ \E callback \in Callbacks : Subscribe(callback)
    \/ \E callback \in Callbacks : Unregister(callback)
    \/ \E updates \in SetUpdates : \E throwers \in SUBSET Callbacks :
          Set(updates, throwers)
    \/ \E effect \in Effects : SetReentrant([page |-> 2], effect)
    \/ GetSnapshot
    \/ \E i \in 1..MaxSnapshots : \E a \in Assignments :
          SnapshotAssign(i, a[1], a[2])

SpecStore == InitStore /\ [][NextStore]_vars

-----------------------------------------------------------------------------
(* The search box on its own: the user types a word one character at a      *)
(* time, the timer fires or the search is submitted, and the requests are   *)
(* answered.                                                                 *)

\* the text of the search box after one more key, typing "cat"
Typed(text) ==
    IF text = "" THEN "c" ELSE IF text = "c" THEN "ca" ELSE "cat"

\* the texts the search box goes through
SearchTexts == {"c", "ca", "cat"}

\* input event of the search box while typing: the text grows by one
\* character and the timer is restarted (clearTimeout, then setTimeout)
SearchType(value) ==
    /\ dom.searchInputValue # "cat"
    /\ value = Typed(dom.searchInputValue)
    /\ Commit([World EXCEPT !.dom.searchInputValue = value,
                            !.searchDebounce = TRUE],
              [op |-> "SearchInput", value |-> value])

NextSearch ==
    \/ \E ok \in BOOLEAN : HealthSettled(ok)
    \/ \E value \in SearchTexts : SearchType(value)
    \/ DebounceFire
    \/ SearchEnter
    \/ SearchClick
    \/ LoadSuccess

SpecSearch == Init /\ [][NextSearch]_vars

-----------------------------------------------------------------------------
(* Properties *)

\* the search requests a step issues
NewRequests == requests' \ requests

\* the loadMore requests in flight
LoadMoreInFlight == {r \in requests : r.kind = "loadMore"}

\* the step is a handler that calls Gallery.loadMore(): the button, the
\* observer, or Lightbox.next at the last index with more pages declared
CallsLoadMore ==
    \/ lastOp'.op \in {"LoadMoreClick", "InfiniteScroll"}
    \/ /\ lastOp'.op = "LightboxNext"
       /\ lightbox.currentIndex >= Len(state.assets) - 1
       /\ state.hasMore

\* the operations that write a filter field
FilterOps ==
    {"DebounceFire", "SearchEnter", "SearchClick", "DateFromChange",
     "DateToChange", "MediaTypeChange", "CameraMakeChange",
     "CameraModelChange", "CountryChange", "CityChange", "TogglePerson",
     "PersonChipClick", "RemoveFilter", "ClearAll"}

\* the payload carries the filter fields of state s
CarriesFilters(payload, s) ==
    /\ payload.query = (IF s.query = "" THEN Null ELSE s.query)
    /\ payload.personIds = s.personIds
    /\ payload.takenAfter = (IF s.dateFrom = "" THEN Null ELSE s.dateFrom)
    /\ payload.takenBefore = (IF s.dateTo = "" THEN Null ELSE s.dateTo)
    /\ payload.type = (IF s.mediaType = "ALL" THEN Null ELSE s.mediaType)
    /\ payload.make = (IF s.cameraMake = "" THEN Null ELSE s.cameraMake)
    /\ payload.model = (IF s.cameraModel = "" THEN Null ELSE s.cameraModel)
    /\ payload.country = (IF s.country = "" THEN Null ELSE s.country)
    /\ payload.city = (IF s.city = "" THEN Null ELSE s.city)

\* C1: at most one loadMore request is outstanding at any time, and a call of
\* Gallery.loadMore() made while isLoadingMore is true (button, observer or
\* Lightbox.next) issues no request and changes neither the state nor the page.
C1_OneLoadMoreInFlight ==
    [][ /\ Cardinality(LoadMoreInFlight) <= 1
        /\ Cardinality({r \in requests' : r.kind = "loadMore"}) <= 1
        /\ (CallsLoadMore /\ state.isLoadingMore) =>
              /\ NewRequests = {}
              /\ issued' = issued
              /\ state' = state
              /\ dom' = dom
              /\ url' = url ]_vars

\* C1 witness: Lightbox.next at the last index called loadMore() while a
\* loadMore request was in flight, and that request is still the only one
C1_SecondCallWhileLoading ==
    /\ lastOp.op = "LightboxNext"
    /\ lastOp.loading
    /\ lightbox.currentIndex >= Len(state.assets) - 1
    /\ state.hasMore
    /\ state.isLoadingMore
    /\ Cardinality(LoadMoreInFlight) = 1

\* C2: in every reachable state the accumulated list state.assets is a prefix
\* of the server's ordered result sequence for the filters held in the state.
\* (Refuted: a response of a request issued for other filters is applied.)
C2_AssetsPrefixOfServerResults ==
    LET all == ServerResults(BuildSearchPayload(state, FALSE))
    IN  /\ Len(state.assets) <= Len(all)
        /\ state.assets = SubSeq(all, 1, Len(state.assets))

\* C3: every step that changes a filter field leaves page = 1 and an empty
\* list, written by the same update, and the search request it issues is for
\* page 1 of the new filters.
C3_FilterChangeResetsPagination ==
    [][ FiltersOf(state') # FiltersOf(state) =>
          /\ lastOp'.op \in FilterOps
          /\ state'.page = 1
          /\ state'.assets = <<>>
          /\ \E r \in NewRequests :
                /\ NewRequests = {r}
                /\ r.kind = "load"
                /\ r.payload.page = 1
                /\ CarriesFilters(r.payload, state') ]_vars

\* C3 witness: the media type was changed while a loaded list was on the
\* page; the list of the state is empty and the cursor is at page 1
C3_ChangedWithLoadedList ==
    /\ lastOp.op = "MediaTypeChange"
    /\ state.mediaType = "VIDEO"
    /\ dom.galleryItems # <<>>
    /\ state.assets = <<>>
    /\ state.page = 1

\* C4 as stated: after a successful loadMore() the list is the list held when
\* loadMore() was invoked, followed by the response's items.  (Refuted: the
\* list is read after the await, and may have been replaced meanwhile.)
C4_AppendsToListAtCall ==
    [][ lastOp'.op = "LoadMoreSuccess" =>
          state'.assets = lastOp'.request.atCall.assets
                          \o ItemsOf(lastOp'.response) ]_vars

\* C4 amended: after a successful loadMore() with items N the list is the list
\* held when the response is applied, followed by N in server order; no
\* earlier element is removed, reordered or replaced.
C4_AppendsToCurrentList ==
    [][ lastOp'.op = "LoadMoreSuccess" =>
          LET N == lastOp'.response.items
          IN  /\ lastOp'.response.hasItems =>
                    /\ Len(state'.assets) = Len(state.assets) + Len(N)
                    /\ \A i \in 1..Len(state.assets) :
                          state'.assets[i] = state.assets[i]
                    /\ \A i \in 1..Len(N) :
                          state'.assets[Len(state.assets) + i] = N[i]
              /\ ~lastOp'.response.hasItems => state'.assets = state.assets
       ]_vars

\* C4 witness: a page of at least one item was appended after a list of at
\* least one item
C4_PageAppended ==
    /\ lastOp.op = "LoadMoreSuccess"
    /\ lastOp.response.hasItems
    /\ Len(lastOp.response.items) > 0
    /\ Len(state.assets) > Len(lastOp.response.items)

\* C5: a loadMore response with zero items sets hasMore to false whatever
\* hasMore it carries, and leaves no loadMore request in flight; a loadMore
\* request is issued only while hasMore is true; and with none in flight
\* hasMore turns true again only by a filter reset or a load().
C5_EmptyPageEndsPagination ==
    [][ /\ (/\ lastOp'.op = "LoadMoreSuccess"
            /\ (~lastOp'.response.hasItems \/ lastOp'.response.items = <<>>))
              => /\ ~state'.hasMore
                 /\ \A r \in requests' : r.kind # "loadMore"
        /\ (\E r \in NewRequests : r.kind = "loadMore") => state.hasMore
        /\ (~state.hasMore /\ state'.hasMore /\ LoadMoreInFlight = {}) =>
              lastOp'.op \in FilterOps \cup {"Apply", "LoadSuccess"} ]_vars

\* C5 witness: an empty loadMore page whose response said hasMore = true has
\* been applied, and hasMore is false
C5_EmptyPageSaidMore ==
    /\ lastOp.op = "LoadMoreSuccess"
    /\ lastOp.response.hasMore = "true"
    /\ (~lastOp.response.hasItems \/ lastOp.response.items = <<>>)
    /\ ~state.hasMore

\* C6: hasMore is true initially, and it turns from true to false only in a
\* step that applies a search response which carries hasMore = false or is a
\* loadMore page of zero items.
C6_HasMoreFalseOnlyByResponse ==
    /\ state.hasMore
    /\ [][ (state.hasMore /\ ~state'.hasMore) =>
             /\ lastOp'.op \in {"LoadSuccess", "LoadMoreSuccess"}
             /\ \/ lastOp'.response.hasMore = "false"
                \/ /\ lastOp'.op = "LoadMoreSuccess"
                   /\ (~lastOp'.response.hasItems
                       \/ lastOp'.response.items = <<>>) ]_vars

\* C6 witness: a load() response carrying hasMore = false has been applied
\* and hasMore is false
C6_ServerSaidNoMore ==
    /\ lastOp.op = "LoadSuccess"
    /\ lastOp.response.hasMore = "false"
    /\ ~state.hasMore

\* the operations that call Gallery.load() whenever they run
LoadCallers ==
    {"HealthSettled", "DebounceFire", "SearchEnter", "SearchClick",
     "DateFromChange", "DateToChange", "MediaTypeChange", "CameraMakeChange",
     "CameraModelChange", "CountryChange", "CityChange", "TogglePerson",
     "Apply", "ClearAll", "RemoveFilter", "Retry"}

\* C7: a call of Gallery.load() issues exactly one search request, for page 1
\* and the filters held at the call; when it succeeds assets is the response's
\* item list (empty when items is missing), page is the response's page or 1,
\* and isLoading is false.
C7_LoadReplacesList ==
    [][ /\ lastOp'.op \in LoadCallers =>
              /\ Cardinality(NewRequests) = 1
              /\ issued' = issued + 1
              /\ \A r \in NewRequests : r.kind = "load"
        /\ \A r \in NewRequests :
              r.kind = "load" =>
                 /\ Cardinality(NewRequests) = 1
                 /\ r.payload.page = 1
                 /\ CarriesFilters(r.payload, state')
        /\ lastOp'.op = "LoadSuccess" =>
              /\ lastOp'.request \in requests
              /\ lastOp'.request \notin requests'
              /\ state'.assets = (IF lastOp'.response.hasItems
                                  THEN lastOp'.response.items ELSE <<>>)
              /\ state'.page = (IF lastOp'.response.page = NoNumber
                                THEN 1 ELSE lastOp'.response.page)
              /\ ~state'.isLoading ]_vars

\* C7 witness: a full first page of a response without a page number has
\* replaced the list
C7_FirstPageLoaded ==
    /\ lastOp.op = "LoadSuccess"
    /\ lastOp.response.page = NoNumber
    /\ Len(lastOp.response.items) = PageLen
    /\ state.assets = lastOp.response.items
    /\ state.page = 1
    /\ ~state.isLoading

\* C8 as stated: when a loadMore request fails, isLoadingMore is false and
\* assets, page, hasMore, total and error are as they were before the
\* loadMore() call.  (Refuted: they may have been written between the call
\* and the failure, and the catch block does not restore them.)
C8_FailureRestoresStateAtCall ==
    [][ lastOp'.op = "LoadMoreFailure" =>
          /\ ~state'.isLoadingMore
          /\ Pagination(state') = lastOp'.request.atCall ]_vars

\* C8 amended: when a loadMore request fails, isLoadingMore becomes false and
\* assets, page, hasMore, total and error are left as they are when the
\* failure is handled; the items on the page stay.
C8_FailureLeavesStateAlone ==
    [][ lastOp'.op = "LoadMoreFailure" =>
          /\ ~state'.isLoadingMore
          /\ state'.assets = state.assets
          /\ state'.page = state.page
          /\ state'.hasMore = state.hasMore
          /\ state'.total = state.total
          /\ state'.error = state.error
          /\ dom'.galleryItems = dom.galleryItems ]_vars

\* C8 witness: a loadMore request has failed with a loaded list in the state
C8_FailedWithLoadedList ==
    /\ lastOp.op = "LoadMoreFailure"
    /\ ~state.isLoadingMore
    /\ state.assets # <<>>
    /\ state.hasMore

\* C9: when a load() request fails, isLoading becomes false, error is the
\* failure's message, the error view is shown, and assets, page, hasMore and
\* total are unchanged; the retry control issues a new load(); every load()
\* has set error to null when its request is issued.
C9_LoadFailureShowsError ==
    [][ /\ lastOp'.op = "LoadFailure" =>
              /\ ~state'.isLoading
              /\ state'.error = lastOp'.message
              /\ ~dom'.errorStateHidden
              /\ dom'.errorMessage = lastOp'.message
              /\ state'.assets = state.assets
              /\ state'.page = state.page
              /\ state'.hasMore = state.hasMore
              /\ state'.total = state.total
        /\ lastOp'.op = "Retry" =>
              /\ ~dom.errorStateHidden
              /\ \E r \in NewRequests : r.kind = "load" /\ r.payload.page = 1
        /\ (\E r \in NewRequests : r.kind = "load") =>
              /\ state'.error = Null
              /\ state'.isLoading ]_vars

\* C9 witness: a load() request has failed after an earlier one had filled
\* the list; the error is recorded and shown, the list is kept
C9_FailedAfterLoadedList ==
    /\ lastOp.op = "LoadFailure"
    /\ state.error = "HTTP 500"
    /\ ~dom.errorStateHidden
    /\ state.assets # <<>>
    /\ ~state.isLoading

\* the filter fields Gallery.removeFilter(key, ...) is to reset
FieldsOfTag(key) ==
    IF key = "date" THEN {"dateFrom", "dateTo"}
    ELSE IF key = "person" THEN {"personIds"}
    ELSE {key}

\* C10: Gallery.removeFilter(key, value) resets only the named filter: 'date'
\* resets dateFrom and dateTo, 'person' removes only the given id from
\* personIds, any other key resets that field to its default; every other
\* filter field is left unchanged.
C10_RemoveFilterResetsOnlyNamedField ==
    [][ lastOp'.op = "RemoveFilter" =>
          LET key == lastOp'.key
              value == lastOp'.value
          IN  /\ \A k \in FilterKeys \ FieldsOfTag(key) : state'[k] = state[k]
              /\ key = "person" =>
                    /\ ~Includes(state'.personIds, value)
                    /\ \E i \in 1..Len(state.personIds) :
                          /\ state.personIds[i] = value
                          /\ state'.personIds =
                                SubSeq(state.personIds, 1, i - 1)
                                \o SubSeq(state.personIds, i + 1,
                                          Len(state.personIds))
              /\ key # "person" =>
                    \A k \in FieldsOfTag(key) : state'[k] = InitialState[k]
       ]_vars

\* C10 witness: the date tag was removed; both bounds are reset and the
\* other filters of the URL are still set
C10_DateTagRemoved ==
    /\ lastOp.op = "RemoveFilter"
    /\ lastOp.key = "date"
    /\ state.dateFrom = Null
    /\ state.dateTo = Null
    /\ state.query = "cat"
    /\ state.personIds = <<"p1", "p2">>
    /\ state.city = "Paris"

\* C11: every Gallery.removeFilter call leaves page = 1 and an empty list,
\* and issues exactly one load() after that update: its search request is
\* for page 1 and carries the filter fields as they are after the removal.
C11_RemoveFilterResetsThenLoads ==
    [][ lastOp'.op = "RemoveFilter" =>
          /\ state'.page = 1
          /\ state'.assets = <<>>
          /\ state'.isLoading
          /\ issued' = issued + 1
          /\ \E r \in requests' :
                /\ r \notin requests
                /\ requests' = requests \cup {r}
                /\ r.id = issued'
                /\ r.kind = "load"
                /\ r.payload.page = 1
                /\ CarriesFilters(r.payload, state')
                /\ ~CarriesFilters(r.payload, state) ]_vars

\* C11 witness: the query tag was removed while a loaded list was on the
\* page; the list is empty, and the newest request is for page 1 without a
\* query
C11_QueryTagRemoved ==
    /\ lastOp.op = "RemoveFilter"
    /\ lastOp.key = "query"
    /\ dom.galleryItems # <<>>
    /\ state.assets = <<>>
    /\ state.page = 1
    /\ \E r \in requests :
          r.id = issued /\ r.kind = "load" /\ r.payload.query = Null

\* C19: when Lightbox.next() at the last index of the list has triggered
\* loadMore() and the fetch returns one new item, the lightbox advances to
\* it: lightboxIndex is the former index + 1 and lightboxAssetId is the id
\* of the new item.  (Refuted: next() returns after the await.)
C19_NextAdvancesAfterLoadMore ==
    [][ (/\ lastOp'.op = "LoadMoreSuccess"
         /\ lastOp'.request.awaitedBy = "Lightbox.next"
         /\ Len(ItemsOf(lastOp'.response)) = 1
         /\ ~dom.lightboxHidden
         /\ lightbox.currentIndex = Len(state.assets) - 1
         /\ state.lightboxIndex = lightbox.currentIndex) =>
          /\ state'.lightboxIndex = state.lightboxIndex + 1
          /\ state'.lightboxAssetId = lastOp'.response.items[1].id ]_vars

\* C20: previous() at index 0, and next() at the last index of the list
\* with hasMore false, change neither the lightbox's index and asset nor any
\* field of the store, and issue no network request.
C20_NoOpAtBoundaries ==
    [][ (\/ lastOp'.op = "Previous" /\ lightbox.currentIndex = 0
         \/ /\ lastOp'.op = "LightboxNext"
            /\ lightbox.currentIndex = Len(state.assets) - 1
            /\ ~state.hasMore) =>
          /\ lightbox' = lightbox
          /\ state' = state
          /\ requests' = requests
          /\ issued' = issued
          /\ details' = details
          /\ opened' = opened ]_vars

\* C20 witness: previous() was called on the first item, the only one opened
\* so far: the lightbox is still on it and no request for details was added
C20_PreviousAtFirst ==
    /\ lastOp.op = "Previous"
    /\ ~dom.lightboxHidden
    /\ lightbox.currentIndex = 0
    /\ state.lightboxIndex = 0
    /\ opened = 1

\* the URL parameter of a filter field
ParamOf(key) ==
    CASE key = "query" -> "q"
      [] key = "personIds" -> "people"
      [] key = "dateFrom" -> "from"
      [] key = "dateTo" -> "to"
      [] key = "mediaType" -> "type"
      [] key = "cameraMake" -> "make"
      [] key = "cameraModel" -> "model"
      [] key = "country" -> "country"
      [] key = "city" -> "city"

\* C12 as stated: State.loadFromURL on a store of default filters, applied
\* to the query string State.toURLParams gave for any combination of filter
\* values, yields exactly the original nine values.  (Refuted: an empty
\* string held as a date bound comes back as null.)
C12_RoundTripExact ==
    lastOp.op = "Reload" => FiltersOf(state) = lastOp.filters

\* C12 amended: the round trip yields the original nine filter values, but
\* for a date bound holding the empty string, which comes back as null; and
\* the value restored for a field is the one its own parameter gives, or
\* the default when the parameter is absent.
C12_RoundTripUpToEmptyDate ==
    lastOp.op = "Reload" =>
      /\ \A k \in FilterKeys \ {"dateFrom", "dateTo"} :
            state[k] = lastOp.filters[k]
      /\ \A k \in {"dateFrom", "dateTo"} :
            state[k] = (IF lastOp.filters[k] = "" THEN Null
                        ELSE lastOp.filters[k])
      /\ \A k \in FilterKeys :
            IF ParamsHas(url, ParamOf(k))
            THEN LET own == << <<ParamOf(k), ParamsGet(url, ParamOf(k))>> >>
                 IN  state[k] = LoadFromURL(Fresh(own)).state[k]
            ELSE state[k] = InitialState[k]

\* C12 witness: a store with every filter set, the lower date bound to the
\* empty string, went through the URL and back
C12_RestoredFromURL ==
    /\ lastOp.op = "Reload"
    /\ lastOp.filters.dateFrom = ""
    /\ state.dateFrom = Null
    /\ state.dateTo = "2024-01-01"
    /\ state.personIds = <<"p2", "p1">>
    /\ state.query = "cat"
    /\ state.mediaType = "VIDEO"
    /\ state.city = "Paris"

\* C13: the query string State.syncToURL writes holds only keys among q,
\* people, from, to, type, make, model, country, city, and it is the same
\* for every state with the same nine filter fields, whatever page, hasMore,
\* total, assets, the loading flags, error and the lightbox fields are.
C13_URLHoldsFiltersOnly ==
    lastOp.op = "SyncToURL" =>
      /\ \A i \in 1..Len(url) :
            url[i][1] \in {"q", "people", "from", "to", "type", "make",
                           "model", "country", "city"}
      /\ \A o \in OtherFields : ToURLParams(Merge(state, o)) = url
      /\ ToURLParams(Merge(InitialState, FiltersOf(state))) = url

\* C13 witness: the URL of a store in the middle of browsing (page 2, an
\* error, the lightbox open) with every filter set was written
C13_SyncedWhileBrowsing ==
    /\ lastOp.op = "SyncToURL"
    /\ state.page = 2
    /\ state.error = "HTTP 500"
    /\ state.lightboxIndex = 0
    /\ Len(url) = Cardinality(FilterKeys)

\* C14: after State.set(updates) returns, every key of updates holds the
\* given value, every other key of the state is unchanged, and each
\* subscriber registered at the time has been invoked exactly once, with
\* the merged state and the state before the merge.
C14_SetMergesAndNotifiesEach ==
    [][ (lastOp'.op = "Set" /\ ~lastOp'.threw) =>
          /\ DOMAIN state' = DOMAIN state \cup DOMAIN lastOp'.updates
          /\ \A k \in DOMAIN lastOp'.updates : state'[k] = lastOp'.updates[k]
          /\ \A k \in DOMAIN state \ DOMAIN lastOp'.updates :
                state'[k] = state[k]
          /\ \A i \in 1..Len(store.subscribers) :
                Cardinality({j \in 1..Len(lastOp'.calls) :
                    lastOp'.calls[j].reg = store.subscribers[i].reg}) = 1
          /\ \A j \in 1..Len(lastOp'.calls) :
                /\ \E i \in 1..Len(store.subscribers) :
                      /\ lastOp'.calls[j].reg = store.subscribers[i].reg
                      /\ lastOp'.calls[j].cb = store.subscribers[i].cb
                /\ lastOp'.calls[j].new = state'
                /\ lastOp'.calls[j].old = state ]_vars

\* C14 witness: a set of two fields returned with three subscribers
C14_SetWithThreeSubscribers ==
    /\ lastOp.op = "Set"
    /\ ~lastOp.threw
    /\ lastOp.updates = [query |-> "cat", page |-> 1]
    /\ Len(lastOp.calls) = MaxSubscribers
    /\ lastOp.calls[1].old.query = ""
    /\ state.query = "cat"

\* C15: within one State.set the subscribers are invoked in the order in
\* which they were registered, whatever subscribe and unregister calls were
\* made before.
C15_InvokedInRegistrationOrder ==
    [][ lastOp'.op = "Set" =>
          \A i, j \in 1..Len(lastOp'.calls) :
              i < j => lastOp'.calls[i].reg < lastOp'.calls[j].reg ]_vars

\* C15 witness: a set invoked the second and third registrations, after the
\* first was unregistered
C15_SetAfterUnregisterAndSubscribe ==
    /\ lastOp.op = "Set"
    /\ Len(lastOp.calls) = 2
    /\ store.removed # {}
    /\ store.registered = 3
    /\ lastOp.calls[1].reg = 2
    /\ lastOp.calls[2].reg = 3

\* C16: once the function State.subscribe(cb) returned has been called, no
\* later State.set invokes cb (as long as cb is not subscribed again), and
\* the other subscribers stay registered, in their order, and are invoked.
C16_UnregisteredIsNotInvoked ==
    [][ /\ lastOp'.op = "Set" =>
              \A j \in 1..Len(lastOp'.calls) :
                  lastOp'.calls[j].cb \notin store.removed
        /\ lastOp'.op = "Unregister" =>
              /\ \A i \in 1..Len(store'.subscribers) :
                    store'.subscribers[i].cb # lastOp'.callback
              /\ \E kept \in [1..Len(store'.subscribers) ->
                                  1..Len(store.subscribers)] :
                    /\ \A i \in DOMAIN kept :
                          store'.subscribers[i] = store.subscribers[kept[i]]
                    /\ \A i, j \in DOMAIN kept : i < j => kept[i] < kept[j]
                    /\ \A n \in 1..Len(store.subscribers) :
                          store.subscribers[n].cb # lastOp'.callback
                            => \E i \in DOMAIN kept : kept[i] = n ]_vars

\* C16 witness: a set that invoked the two subscribers left after the one
\* registered between them was unregistered
C16_SetAfterUnregister ==
    /\ lastOp.op = "Set"
    /\ store.removed # {}
    /\ store.registered = 3
    /\ Len(lastOp.calls) = 2
    /\ lastOp.calls[1].reg = 1
    /\ lastOp.calls[2].reg = 3

\* C17: the object State.get() returns is apart from the store: it holds the
\* state's values, assigning to one of its fields does not change the
\* store, and a later State.set does not change what is seen through it.
C17_SnapshotIsApart ==
    [][ /\ lastOp'.op = "Get" =>
              Read(store'.snapshots[Len(store'.snapshots)], state') = state
        /\ lastOp'.op = "SnapshotAssign" =>
              /\ state' = state
              /\ store'.subscribers = store.subscribers
        /\ lastOp'.op = "Set" =>
              \A i \in 1..Len(store.snapshots) :
                  Read(store'.snapshots[i], state')
                    = Read(store.snapshots[i], state) ]_vars

\* C17 witness: an object taken from the initial state, a set of page after
\* it, then an assignment to the object's page
C17_AssignedAfterSet ==
    /\ lastOp.op = "SnapshotAssign"
    /\ lastOp.key = "page"
    /\ Len(store.snapshots) > 0
    /\ Read(store.snapshots[1], state).page = 7
    /\ Read(store.snapshots[1], state).query = ""
    /\ state.page = 1
    /\ state.query = "cat"

\* C18: when a subscriber throws during State.set, the exception leaves set
\* at once: the merged state stays applied and the subscribers registered
\* after the throwing one are not invoked.
C18_ThrowEndsNotification ==
    [][ (lastOp'.op = "Set" /\ lastOp'.threw) =>
          /\ state' = Merge(state, lastOp'.updates)
          /\ \E t \in 1..Len(store.subscribers) :
                /\ Len(lastOp'.calls) = t
                /\ store.subscribers[t].cb \in lastOp'.throwers
                /\ \A i \in 1..(t - 1) :
                      store.subscribers[i].cb \notin lastOp'.throwers
                /\ \A i \in 1..t :
                      lastOp'.calls[i].reg = store.subscribers[i].reg
                /\ \A i \in (t + 1)..Len(store.subscribers) :
                      \A j \in 1..Len(lastOp'.calls) :
                          lastOp'.calls[j].reg # store.subscribers[i].reg ]_vars

\* C18 witness: the second of three subscribers threw
C18_SecondOfThreeThrew ==
    /\ lastOp.op = "Set"
    /\ lastOp.threw
    /\ Len(store.subscribers) = MaxSubscribers
    /\ Len(lastOp.calls) = 2
    /\ state.page = 2

\* the lightbox is open: Lightbox.open has shown the element and
\* Lightbox.close has not hidden it since
LightboxIsOpen == ~dom.lightboxHidden

\* C21: in every reachable state, if the lightbox is open then lightboxIndex
\* is an index of the accumulated list and the asset at that index has the
\* id lightboxAssetId; if it is closed, lightboxAssetId is null and
\* lightboxIndex is -1.  (Refuted: the list is replaced while the items of
\* the old one can still be opened, and under an open lightbox.)
C21_OpenLightboxDesignatesListAsset ==
    IF LightboxIsOpen
    THEN /\ 0 <= state.lightboxIndex
         /\ state.lightboxIndex < Len(state.assets)
         /\ state.assets[state.lightboxIndex + 1].id = state.lightboxAssetId
    ELSE /\ state.lightboxAssetId = NoId
         /\ state.lightboxIndex = -1

\* C23: at any moment at most one search request issued by load() is
\* outstanding, and at most one issued by loadMore().  (Refuted for load():
\* it sets isLoading but does not test it.)
C23_OneRequestOfEachKind ==
    /\ Cardinality({r \in requests : r.kind = "load"}) <= 1
    /\ Cardinality({r \in requests : r.kind = "loadMore"}) <= 1

\* C25: no failure of a network request escapes, as an exception or a
\* rejected promise, from the operation that issued it, in any interleaving
\* with Lightbox.close().  (Refuted: Lightbox.open, continued after a failed
\* API.getAsset once close() has run, throws in displayMedia.)
C25_NoFailureEscapes ==
    lastOp.op = "OpenSettled" => ~lastOp.threw

\* C27: whenever no search request is outstanding and no debounce timer is
\* pending, the query string of the page URL is State.toURLParams of the
\* state.  (Refuted: a rejected load() does not write the URL.)
C27_URLReflectsFiltersWhenIdle ==
    (requests = {} /\ ~searchDebounce) => url = ToURLParams(state)

\* C28: a successful load() whose response has n > 0 items, total = n and
\* hasMore = false leaves assets equal to the items, in server order, and
\* the result-count text equal to "n items".  (Refuted: the text is written
\* only when total or the length of the list changes.)
C28_FullResultShowsItemCount ==
    [][ ( /\ lastOp'.op = "LoadSuccess"
          /\ lastOp'.response.hasItems
          /\ Len(lastOp'.response.items) > 0
          /\ lastOp'.response.total = Len(lastOp'.response.items)
          /\ lastOp'.response.hasMore = "false" ) =>
          /\ state'.assets = lastOp'.response.items
          /\ dom'.resultCount
               = ToString(Len(lastOp'.response.items)) \o " items" ]_vars

\* C29: a successful load() whose response has no item and total 0 shows
\* the empty state and hides the load-more control, with the loading and
\* error views hidden and assets empty.
C29_EmptyResultShowsEmptyState ==
    [][ ( /\ lastOp'.op = "LoadSuccess"
          /\ ItemsOf(lastOp'.response) = <<>>
          /\ lastOp'.response.total = 0 ) =>
          /\ state'.assets = <<>>
          /\ dom'.galleryItems = <<>>
          /\ ~dom'.emptyStateHidden
          /\ dom'.loadMoreContainerHidden
          /\ dom'.galleryLoadingHidden
          /\ dom'.errorStateHidden ]_vars

\* C29 witness: a load() was answered with no item and total 0, after
\* another request had been issued
C29_EmptyResultLoaded ==
    /\ lastOp.op = "LoadSuccess"
    /\ ItemsOf(lastOp.response) = <<>>
    /\ lastOp.response.total = 0
    /\ lastOp.request.id > 1
    /\ ~dom.emptyStateHidden
    /\ state.assets = <<>>

\* C24: a request in flight is never cancelled: it leaves the set of
\* outstanding requests only when its own response or failure is handled.
\* So a load() response for filters the state no longer holds is applied
\* like any other (the interleaving itself is the witness).
C24_RequestsAreNeverCancelled ==
    [][ \A r \in requests \ requests' :
          /\ lastOp'.op \in {"LoadSuccess", "LoadFailure",
                              "LoadMoreSuccess", "LoadMoreFailure"}
          /\ lastOp'.request = r
          /\ (lastOp'.op = "LoadSuccess" =>
                /\ state'.assets = ItemsOf(lastOp'.response)
                /\ state'.hasMore = (lastOp'.response.hasMore # "false")
                /\ FiltersOf(state') = FiltersOf(state)) ]_vars

\* C24 witness: load() #1 was in flight for filters F1, a filter changed and
\* load() #2 was issued; the response of #2 was applied (no request is
\* outstanding and no error is set, which a rejected #2 would have left),
\* and now the response of #1 has been applied: assets, total, page and
\* hasMore are those of F1's response while the state's filters are F2
C24_StaleResponseOverwrote ==
    /\ lastOp.op = "LoadSuccess"
    /\ lastOp.request.id = 1
    /\ issued = 2
    /\ opened = 0
    /\ changes = 1
    /\ requests = {}
    /\ state.error = Null
    /\ ~CarriesFilters(lastOp.request.payload, state)
    /\ state.assets = ItemsOf(lastOp.response)
    /\ state.assets = ServerPage(lastOp.request.payload)
    /\ state.assets # ServerPage(BuildSearchPayload(state, FALSE))
    /\ state.total = lastOp.response.total
    /\ state.page = 1
    /\ state.hasMore = (lastOp.response.hasMore # "false")

\* the state App.init leaves for a page opened with the given URL
SeededFrom(params) == LoadFromURL(Fresh(params)).state

\* C26 as stated: the first search request issued after page load carries
\* the filters encoded in the page URL.  (Refuted: a filter handler run
\* while the health check is pending issues its own load() first.)
C26_FirstRequestCarriesURLFilters ==
    [][ (issued = 0 /\ issued' > 0) =>
          \A r \in NewRequests : CarriesFilters(r.payload, SeededFrom(url))
      ]_vars

\* C26 amended: App.init issues the initial Gallery.load() exactly once,
\* when the health check settles, fulfilled or not: one request for page 1
\* carrying the filters then held in the state, which are those encoded in
\* the page URL (State.loadFromURL has run before) when no handler has run
\* in between, and it is then the first search request.
C26_InitialLoadOnceFromURL ==
    [][ /\ lastOp'.op = "HealthSettled" =>
              /\ initPc = "health"
              /\ initPc' = "done"
              /\ issued' = issued + 1
              /\ \E r \in NewRequests :
                    /\ NewRequests = {r}
                    /\ r.kind = "load"
                    /\ r.payload.page = 1
                    /\ CarriesFilters(r.payload, state)
                    /\ lastOp.op = "Init" =>
                          /\ issued = 0
                          /\ CarriesFilters(r.payload, SeededFrom(url))
        /\ initPc = "done" => lastOp'.op # "HealthSettled" /\ initPc' = "done"
        /\ initPc' # initPc => lastOp'.op = "HealthSettled" ]_vars

\* C26 witness: the page was opened with every filter in the URL, the
\* health check failed, and the first search request carries the filters
C26_InitialLoadAfterFailedHealthCheck ==
    /\ lastOp.op = "HealthSettled"
    /\ ~lastOp.ok
    /\ issued = 1
    /\ changes = 0
    /\ \E r \in requests :
          /\ r.id = 1
          /\ r.payload.query = "cat"
          /\ r.payload.personIds = <<"p1", "p2">>
          /\ r.payload.city = "Paris"

\* C22: a key event while the lightbox is closed changes no lightbox or
\* store state and issues no request; while it is open, ArrowLeft,
\* ArrowRight, Escape and i run previous(), next(), close() and the sidebar
\* toggle.
C22_KeysActOnlyWhileOpen ==
    [][ lastOp'.op = "KeyDown" =>
          LET ran == CASE lastOp'.key = "ArrowLeft" -> LightboxPrevious(World)
                       [] lastOp'.key = "ArrowRight" -> LightboxNext(World)
                       [] lastOp'.key = "Escape" -> LightboxClose(World)
                       [] lastOp'.key = "i" -> LightboxToggleSidebar(World)
                       [] OTHER -> World
          IN  IF LightboxIsOpen
              THEN /\ state' = ran.state
                   /\ dom' = ran.dom
                   /\ lightbox' = ran.lightbox
                   /\ requests' = ran.requests
                   /\ details' = ran.details
                   /\ (lastOp'.key = "i" => dom'.sidebarHidden # dom.sidebarHidden)
                   /\ (lastOp'.key = "Escape" => dom'.lightboxHidden)
              ELSE UNCHANGED <<state, dom, lightbox, requests, issued,
                               details, opened, url>> ]_vars

\* C22 witness: ArrowRight was pressed with the lightbox closed and a list
\* loaded, after the lightbox had been open, its sidebar shown with i and
\* the lightbox closed with Escape
C22_KeyWhileClosedAfterKeysWhileOpen ==
    /\ lastOp.op = "KeyDown"
    /\ lastOp.key = "ArrowRight"
    /\ dom.lightboxHidden
    /\ ~dom.sidebarHidden
    /\ opened = 1
    /\ Len(state.assets) > 1
    /\ lightbox.currentIndex = -1
    /\ state.lightboxAssetId = NoId

\* C30: when hasMore is false, a call of Gallery.loadMore() issues no
\* request and changes neither the state nor the page, whether it comes
\* from the load-more button, the observer or Lightbox.next at the last
\* index (the last two test hasMore themselves before they call).
C30_NoLoadMoreAfterTheEnd ==
    [][ ( /\ ~state.hasMore
          /\ \/ lastOp'.op \in {"LoadMoreCall", "InfiniteScroll"}
             \/ /\ lastOp'.op = "KeyDown"
                /\ lastOp'.key = "ArrowRight"
                /\ LightboxIsOpen
                /\ lightbox.currentIndex >= Len(state.assets) - 1 ) =>
          /\ NewRequests = {}
          /\ UNCHANGED <<state, dom, requests, issued, url, lightbox>> ]_vars

\* C30 witness: Gallery.loadMore() was called with a list loaded, hasMore
\* false and no loadMore request in flight
C30_CalledAfterTheEnd ==
    /\ lastOp.op = "LoadMoreCall"
    /\ ~lastOp.loading
    /\ ~state.hasMore
    /\ Len(state.assets) > 0
    /\ requests = {}

-----------------------------------------------------------------------------
(* Pagination, loading flags and the lightbox under interleavings *)

\* a is a prefix of b
IsPrefix(a, b) == Len(a) <= Len(b) /\ SubSeq(b, 1, Len(a)) = a

\* the operations that reset the list: the filter handlers and Apply (they
\* set assets to []), and a load() response (it replaces the list)
ListResets == FilterOps \cup {"Apply", "LoadSuccess"}

\* C33: between two resets of the list the accumulated list is append-only:
\* a step that settles a loadMore() leaves the previous list as a prefix of
\* the new one, and every step that is not a reset does (so the length never
\* decreases but by a reset).
C33_ListIsAppendOnly ==
    [][ /\ lastOp'.op \in {"LoadMoreSuccess", "LoadMoreFailure"} =>
              IsPrefix(state.assets, state'.assets)
        /\ lastOp'.op \notin ListResets =>
              IsPrefix(state.assets, state'.assets) ]_vars

\* C33 witness: the second page was appended to a first page of PageLen
\* items, which is still the head of the list
C33_SecondPageAfterFirst ==
    /\ lastOp.op = "LoadMoreSuccess"
    /\ Len(lastOp.request.atCall.assets) = PageLen
    /\ Len(state.assets) = MaxResults
    /\ SubSeq(state.assets, 1, PageLen) = lastOp.request.atCall.assets
    /\ state.page = 2

\* C37: isLoadingMore is true only while a loadMore() request is in flight,
\* the step that settles the request (fulfilled or rejected) sets it to
\* false, and a call of loadMore() with the flag false and hasMore true
\* issues a loadMore request: the guard never blocks pagination for good.
C37_FlagClearedWhenSettled ==
    /\ [](state.isLoadingMore => LoadMoreInFlight # {})
    /\ [][ /\ lastOp'.op \in {"LoadMoreSuccess", "LoadMoreFailure"} =>
                 ~state'.isLoadingMore
           /\ (CallsLoadMore /\ ~state.isLoadingMore /\ state.hasMore) =>
                 \E r \in NewRequests : r.kind = "loadMore" ]_vars

\* C37 witness: a loadMore() request was rejected while another request was
\* outstanding; the flag is false, more pages are declared and the load-more
\* control is shown
C37_RejectedAndReady ==
    /\ lastOp.op = "LoadMoreFailure"
    /\ requests # {}
    /\ ~state.isLoadingMore
    /\ state.hasMore
    /\ ~dom.loadMoreContainerHidden

\* C38: in every reachable state isLoading is true exactly when at least one
\* load() request has not settled.  (Refuted: the first of two overlapping
\* load() calls to settle sets isLoading to false while the other request is
\* still outstanding.)
C38_LoadingIffLoadOutstanding ==
    state.isLoading <=> (\E r \in requests : r.kind = "load")

\* C39: once every detail fetch has settled with the lightbox open, the
\* lightbox shows the asset opened last: Lightbox.currentAsset has the id
\* State.lightboxAssetId and Lightbox.currentIndex is State.lightboxIndex.
\* (Refuted: the fetch of an earlier open() that settles last overwrites
\* currentAsset.)
C39_LastOpenedAssetShown ==
    (lastOp.op = "OpenSettled" /\ details = {} /\ LightboxIsOpen) =>
        /\ lightbox.currentAsset.id = state.lightboxAssetId
        /\ lightbox.currentIndex = state.lightboxIndex

\* C40: the detail fetch of an open() that settles while the lightbox is
\* closed leaves Lightbox.currentAsset, its index and the page as they are,
\* and throws nothing.  (Refuted: a fulfilled fetch sets currentAsset and
\* fills the sidebar, a rejected one makes displayMedia throw.)
C40_ClosedLightboxStaysClosed ==
    [][ (lastOp'.op = "OpenSettled" /\ dom.lightboxHidden) =>
           /\ lightbox' = lightbox
           /\ dom' = dom
           /\ ~lastOp'.threw ]_vars

-----------------------------------------------------------------------------
(* Pagination for one filter combination: the page loads and the user only   *)
(* paginates, applies the filters again and retries, so that every request   *)
(* carries the filters the page was opened with.                             *)

NextPaging ==
    \/ \E ok \in BOOLEAN : HealthSettled(ok)
    \/ Apply
    \/ Retry
    \/ LoadMoreClick
    \/ InfiniteScroll
    \/ LoadSuccess
    \/ LoadFailure
    \/ LoadMoreSuccess
    \/ LoadMoreFailure

SpecPaging == Init /\ [][NextPaging]_vars

\* the server's pages 1..n for the filters of a payload, in order
RECURSIVE PagesUpTo(_, _)
PagesUpTo(payload, n) ==
    IF n <= 0 THEN <<>>
    ELSE PagesUpTo(payload, n - 1) \o ServerPage([payload EXCEPT !.page = n])

\* C36: for a fixed filter combination, whenever no search request is
\* outstanding and the list holds assets, the list is the concatenation of
\* the server's pages 1..page, so that the next loadMore() asks for the first
\* page not yet in the list.  (Refuted: a loadMore() response applied after
\* Apply has emptied the list and its load() has failed leaves page 2 alone
\* in the list, with the cursor at 2.)
C36_ListIsPagesUpToCursor ==
    (requests = {} /\ initPc = "done" /\ Len(state.assets) > 0) =>
        state.assets = PagesUpTo(BuildSearchPayload(state, FALSE), state.page)

\* C34: the form controls hold the filter values loaded from the URL, so
\* that a click on the search button or on Apply, with no control edited
\* since the page was opened, leaves every filter field as it is.  (Refuted:
\* Filters.initFromState runs before State.loadFromURL, the search box stays
\* empty and the search button replaces the query of the URL by ''.)
C34_SearchKeepsURLLoadedFilters ==
    [][ (lastOp'.op \in {"SearchClick", "Apply"} /\ changes = 0) =>
           FiltersOf(state') = FiltersOf(state) ]_vars

\* the step issues exactly one search request, a load() for the given text,
\* after updating the query to it
OneLoadFor(text) ==
    /\ Cardinality(NewRequests) = 1
    /\ \A r \in NewRequests :
          r.kind = "load" /\ r.payload.query = OrNull(text)
    /\ state'.query = text

\* C32: free-text input is debounced.  An input event updates no state and
\* issues no request, it leaves one timer pending; a timer is pending only
\* since an input event that no timer callback, Enter or button click
\* followed; the timer's callback issues exactly one load() for the text the
\* box holds then (the last one typed); Enter and the search button issue
\* exactly one load() for that text and leave no timer pending, so none
\* fires later.
C32_DebouncedSearch ==
    [][ /\ lastOp'.op = "SearchInput" =>
              /\ state' = state
              /\ NewRequests = {}
              /\ searchDebounce'
        /\ lastOp'.op = "DebounceFire" =>
              /\ searchDebounce
              /\ OneLoadFor(dom.searchInputValue)
              /\ ~searchDebounce'
        /\ lastOp'.op \in {"SearchEnter", "SearchClick"} =>
              /\ OneLoadFor(dom.searchInputValue)
              /\ ~searchDebounce'
        /\ (searchDebounce' /\ ~searchDebounce) =>
              lastOp'.op = "SearchInput" ]_vars

\* C32 witness: "cat" was typed in three input events on a page opened
\* without parameters, and the timer's callback has issued the only request
\* so far, for "cat"
C32_BurstThenOneLoad ==
    /\ lastOp.op = "DebounceFire"
    /\ url = <<>>
    /\ dom.searchInputValue = "cat"
    /\ state.query = "cat"
    /\ issued = 1
    /\ \A r \in requests : r.payload.query = "cat"

\* C35: a subscriber that subscribes or unregisters a callback while
\* State.set notifies does not change who is notified by that set: the
\* subscribers registered when the set began are each invoked once, in
\* order, the unregistered one included; a subscriber added during the
\* cycle is not invoked by it and is registered afterwards, so that the
\* next set invokes it.
C35_NotificationSetIsFixedAtStart ==
    [][ /\ lastOp'.op = "SetReentrant" =>
              /\ Len(lastOp'.calls) = Len(store.subscribers)
              /\ \A i \in 1..Len(store.subscribers) :
                    /\ lastOp'.calls[i].cb = store.subscribers[i].cb
                    /\ lastOp'.calls[i].reg = store.subscribers[i].reg
              /\ lastOp'.effect.do = "subscribe" =>
                    \E i \in 1..Len(store'.subscribers) :
                       /\ store'.subscribers[i].cb = lastOp'.effect.target
                       /\ store'.subscribers[i].reg > store.registered
                       /\ \A j \in 1..Len(lastOp'.calls) :
                             lastOp'.calls[j].reg # store'.subscribers[i].reg
        /\ (lastOp'.op = "Set" /\ ~lastOp'.threw) =>
              /\ Len(lastOp'.calls) = Len(store.subscribers)
              /\ \A i \in 1..Len(store.subscribers) :
                    lastOp'.calls[i].reg = store.subscribers[i].reg ]_vars

\* C35 witness: the first of two subscribers unregistered the second while
\* it was notified; the second was still invoked by that set and is
\* registered no more
C35_UnregisteredDuringCycle ==
    /\ lastOp.op = "SetReentrant"
    /\ lastOp.effect.do = "unregister"
    /\ lastOp.effect.by # lastOp.effect.target
    /\ Len(lastOp.calls) = 2
    /\ lastOp.calls[1].cb = lastOp.effect.by
    /\ lastOp.calls[2].cb = lastOp.effect.target
    /\ Len(store.subscribers) = 1
    /\ store.subscribers[1].cb = lastOp.effect.by

-----------------------------------------------------------------------------
(* The API client: the HTTP request each of its methods sends *)

\* no request body
NoBody == <<>>

\* API.get(endpoint): this.request(url), fetch with no method given is a GET
APIGet(path, arg) ==
    [method |-> "GET", endpoint |-> [path |-> path, arg |-> arg],
     body |-> NoBody]

\* API.post(endpoint, data): method 'POST', the body is the data
APIPost(path, data) ==
    [method |-> "POST", endpoint |-> [path |-> path, arg |-> NoId],
     body |-> data]

\* API.getHealth
APIGetHealth == APIGet("/health", NoId)

\* API.getAsset: the mutant deletes the asset
APIGetAssetDelete(assetId) ==
    [method |-> "DELETE",
     endpoint |-> [path |-> "/assets/{id}", arg |-> assetId],
     body |-> NoBody]

\* API.getAsset(assetId)
APIGetAsset(assetId) == APIGet("/assets/{id}", assetId)

\* API.search(filters)
APISearch(filters) == APIPost("/search", filters)

\* API.getSearchSuggestions
APIGetSearchSuggestions == APIGet("/search/suggestions", NoId)

\* API.getPeople
APIGetPeople == APIGet("/people", NoId)

\* the HTTP requests of the API client that may be outstanding: the health
\* check of App.init until it settles, the two requests of Filters.init
\* (the model does not follow them: they may be outstanding at any time),
\* the search of every load() and loadMore() and the detail fetch of every
\* Lightbox.open not yet settled
Wire ==
    (IF initPc = "health" THEN {APIGetHealth} ELSE {})
    \cup {APIGetPeople, APIGetSearchSuggestions}
    \cup {APISearch(r.payload) : r \in requests}
    \cup {APIGetAsset(d.asset.id) : d \in details}

\* the fields of a search payload: the filters and the pagination
SearchFields ==
    {"query", "personIds", "takenAfter", "takenBefore", "type", "make",
     "model", "country", "city", "page", "size"}

\* C31: the frontend is read-only: every request it sends through the API
\* client is a GET, but the search, a POST to /search whose body carries
\* filter and pagination fields only.
C31_RequestsOnlyRead ==
    \A h \in Wire :
        \/ h.method = "GET" /\ h.body = NoBody
        \/ /\ h.method = "POST"
           /\ h.endpoint.path = "/search"
           /\ DOMAIN h.body \subseteq SearchFields

\* C31 witness: a search for the next page and the detail fetch of an opened
\* asset are outstanding together
C31_SearchAndDetailOutstanding ==
    /\ \E r \in requests : r.kind = "loadMore"
    /\ details # {}
    /\ \E h \in Wire : h.method = "POST"
    /\ \E h \in Wire : h.endpoint.path = "/assets/{id}"

====
